---- MODULE Spec2Model ----
(***************************************************************************)
(* The alert rule engine and notification dispatcher of                    *)
(* scripts/alert-manager.py (class AlertManager), and the health scorer    *)
(* and monitoring loop of scripts/production-monitor.py (class             *)
(* ProductionMonitor) that drive it.                                       *)
(*                                                                         *)
(* Time is the system clock read by datetime.now() and time.time(),        *)
(* counted in ticks of 1/TicksPerSec second and taken to be monotonic.     *)
(* One call of a method is one step; the clock is read once per call.      *)
(* Alert objects live in the heap `alerts` (index = order of creation);    *)
(* active_alerts and alert_history hold references into it, as the Python  *)
(* dict and list hold references to the same Alert objects.                *)
(***************************************************************************)
EXTENDS Integers, Sequences, FiniteSets, TLC

VARIABLES
    rules,              \* self.rules: sequence of AlertRule
    channels,           \* self.channels: AlertChannel -> NotificationChannel
    now,                \* the system clock, in ticks
    alerts,             \* heap of every Alert object created so far
    active_alerts,      \* self.active_alerts: alert_id -> reference
    alert_history,      \* self.alert_history: sequence of references
    last_notification,  \* self.last_notification: rule name -> time
    delivery_log,       \* what the channel senders did, in order
    last_op,            \* the call that produced this state
    calls,              \* number of evaluate_rules/process_alerts calls so far
    config_file,        \* the file AlertManager.__init__ was given
    health_data,        \* the last result of check_system_health
    running,            \* ProductionMonitor.running
    threads,            \* the monitoring_loop threads started so far
    process,            \* "up", or "exited" once main has returned
    system_monitor      \* the monitor-system-health.py process

(* the fields of the ProductionMonitor and of its process *)
monitor_vars == <<health_data, running, threads, process>>

vars == <<rules, channels, now, alerts, active_alerts, alert_history,
          last_notification, delivery_log, last_op, calls, config_file,
          monitor_vars, system_monitor>>

----------------------------------------------------------------------------
(* Bounds of the model *)

TicksPerSec == 2
MaxTime == 2
MaxCalls == 2
HistCycles == 17
MaxThreads == 2
MaxCycles == 2

(* Program constants *)

HistoryCap == 100
SummaryRecent == 10
DefaultCooldown == 300

----------------------------------------------------------------------------
(* Small helpers for Python dicts and list slices *)

Put(f, k, v) == [x \in DOMAIN f \cup {k} |-> IF x = k THEN v ELSE f[x]]

Remove(f, k) == [x \in DOMAIN f \ {k} |-> f[x]]

EmptyMap == [x \in {} |-> 0]

LastN(s, n) == IF Len(s) > n THEN SubSeq(s, Len(s) - n + 1, Len(s)) ELSE s

FirstN(s, n) == IF Len(s) > n THEN SubSeq(s, 1, n) ELSE s

Range(s) == {s[i] : i \in 1..Len(s)}

----------------------------------------------------------------------------
(* Enumerations *)

AlertLevel == {"info", "warning", "critical", "emergency"}

AlertChannel == {"email", "slack", "sns", "webhook", "pagerduty"}

----------------------------------------------------------------------------
(* Metric values: a number, None, or a key that is absent from the map *)

Num(n) == [k |-> "num", v |-> n]

NullV == [k |-> "null", v |-> 0]

AbsentV == [k |-> "absent", v |-> 0]

(* Get without the default: dict.get(key) gives None for an absent key *)
GetOrNone(field, default) == IF field.k = "absent" THEN NullV ELSE field

Get(field, default) == IF field.k = "absent" THEN Num(default) ELSE field

----------------------------------------------------------------------------
(* Configuration *)

Str(x) == [k |-> "str", v |-> x]

Rule(n, c, t, d, l, ch, cd, en) ==
    [name |-> n, condition |-> c, threshold |-> t, duration |-> d,
     level |-> l, channels |-> ch, cooldown |-> cd, enabled |-> en]

Channel(en, configured, complete) ==
    [enabled |-> en, configured |-> configured, complete |-> complete]

(* setup_default_config: six rules, every cooldown the dataclass default *)
DefaultRules ==
    << Rule("high_response_time", {"response_time_ms"}, 5000, 60, "warning",
            <<"email", "slack">>, DefaultCooldown, TRUE),
       Rule("agent_down", {"active_agents"}, 3, 30, "critical",
            <<"email", "slack", "sns">>, DefaultCooldown, TRUE),
       Rule("high_cpu", {"cpu_percent"}, 80, 300, "warning",
            <<"email">>, DefaultCooldown, TRUE),
       Rule("high_memory", {"memory_percent"}, 85, 300, "warning",
            <<"email">>, DefaultCooldown, TRUE),
       Rule("system_critical", {"overall_health == 'critical'"}, 1, 0, "emergency",
            <<"email", "slack", "sns", "pagerduty">>, DefaultCooldown, TRUE),
       Rule("deprecated_service_running", {"deprecated_services_detected"}, 0, 0,
            "warning", <<"email">>, DefaultCooldown, TRUE) >>

(* setup_default_config: five channels, all disabled, required fields empty;
   the e-mail channel has every key the sender subscripts *)
DefaultChannels ==
    [c \in AlertChannel |-> Channel(FALSE, FALSE, TRUE)]

(* A configuration file as load_config reads it: short cooldowns, a disabled
   rule, a rule whose condition names no supported metric, and a channel
   section without the generic webhook *)
LoadedRulesA ==
    << Rule("high_response_time", {"response_time_ms"}, 5000, 60, "warning",
            <<"email", "slack", "sns">>, 1, TRUE),
       Rule("agent_down", {"active_agents"}, 3, 30, "critical",
            <<"slack", "webhook", "pagerduty", "email">>, 0, TRUE),
       Rule("high_cpu", {"cpu_percent"}, 80, 300, "warning",
            <<"email">>, 1, FALSE),
       Rule("disk_full", {}, 90, 0, "info",
            <<"email">>, 1, TRUE) >>

LoadedChannelsA ==
    [c \in AlertChannel \ {"webhook"} |->
        CASE c = "email"     -> Channel(TRUE, TRUE, TRUE)
          [] c = "slack"     -> Channel(TRUE, TRUE, TRUE)
          [] c = "sns"       -> Channel(FALSE, TRUE, TRUE)
          [] c = "pagerduty" -> Channel(TRUE, FALSE, TRUE)]

(* A configuration file with a repeated rule name (load_config does not
   reject it) and an e-mail channel that lacks the from_email key *)
LoadedRulesB ==
    << Rule("high_cpu", {"cpu_percent"}, 80, 300, "warning",
            <<"email">>, 2, FALSE),
       Rule("high_cpu", {"cpu_percent", "memory_percent"}, 80, 300, "critical",
            <<"slack", "email">>, 1, TRUE),
       Rule("system_critical", {"overall_health == 'critical'"}, 1, 0, "emergency",
            <<"email", "slack">>, 2, TRUE) >>

LoadedChannelsB ==
    [c \in {"email", "slack"} |->
        CASE c = "email" -> Channel(TRUE, TRUE, FALSE)
          [] c = "slack" -> Channel(TRUE, TRUE, TRUE)]

Configs ==
    { [rules |-> DefaultRules, channels |-> DefaultChannels],
      [rules |-> LoadedRulesA, channels |-> LoadedChannelsA],
      [rules |-> LoadedRulesB, channels |-> LoadedChannelsB] }

----------------------------------------------------------------------------
(* Configuration files.  kind says how far open and json.load get: "none"
   (no path was given), "unreadable" (open raises), "invalid_json" (json.load
   raises), "not_object" (valid JSON that is no object, so config.get raises)
   or "object".  An object has or lacks the sections 'rules' and 'channels';
   an entry of a section carries the set `has` of the keys it holds and the
   values of those keys (the values of keys it lacks are never read). *)

ConfigFile(kind, rp, rs, cp, cs) ==
    [kind |-> kind, rules_present |-> rp, rules |-> rs,
     channels_present |-> cp, channels |-> cs]

NoFile == ConfigFile("none", FALSE, << >>, FALSE, << >>)

RuleKeys ==
    {"name", "condition", "threshold", "duration", "level", "channels",
     "cooldown", "enabled"}

(* the keys load_config subscripts; cooldown and enabled are read with .get *)
RuleRequired == RuleKeys \ {"cooldown", "enabled"}

ChannelKeys == {"config", "enabled"}

setup_default_config == [rules |-> DefaultRules, channels |-> DefaultChannels]

(* lines 193-204: the AlertRule built from one entry of 'rules'; not ok when
   a subscript raises KeyError or an enum constructor ValueError *)
LoadRule(d) ==
    [ok |-> /\ RuleRequired \subseteq d.has
            /\ d.rule.level \in AlertLevel
            /\ Range(d.rule.channels) \subseteq AlertChannel,
     rule |-> [d.rule EXCEPT
                 !.cooldown = IF "cooldown" \in d.has THEN @ ELSE DefaultCooldown,
                 !.enabled = IF "enabled" \in d.has THEN @ ELSE TRUE]]

(* lines 208-214: the NotificationChannel built from one entry of 'channels' *)
LoadChannel(d) ==
    [ok |-> d.name \in AlertChannel /\ "config" \in d.has,
     channel |-> [d.channel EXCEPT
                    !.enabled = IF "enabled" \in d.has THEN @ ELSE TRUE]]

RECURSIVE LoadRules(_, _, _)

(* the loop over config.get('rules', []) from entry i on *)
LoadRules(items, i, acc) ==
    IF i > Len(items) THEN [ok |-> TRUE, rules |-> acc]
    ELSE IF ~LoadRule(items[i]).ok THEN [ok |-> FALSE, rules |-> acc]
    ELSE LoadRules(items, i + 1, Append(acc, LoadRule(items[i]).rule))

RECURSIVE LoadChannels(_, _, _)

(* the loop over config.get('channels', {}).items() from entry i on *)
LoadChannels(items, i, acc) ==
    IF i > Len(items) THEN [ok |-> TRUE, channels |-> acc]
    ELSE IF ~LoadChannel(items[i]).ok THEN [ok |-> FALSE, channels |-> acc]
    ELSE LoadChannels(items, i + 1,
                      Put(acc, items[i].name, LoadChannel(items[i]).channel))

(* load_config whose except clause keeps what was loaded before the error
   and fills in only what is still missing *)
load_config_keeps_partial(f) ==
    IF f.kind # "object" THEN setup_default_config
    ELSE LET r == LoadRules(IF f.rules_present THEN f.rules ELSE << >>, 1, << >>)
             c == LoadChannels(IF f.channels_present THEN f.channels ELSE << >>,
                               1, EmptyMap)
         IN  IF ~r.ok THEN setup_default_config
             ELSE IF ~c.ok THEN [rules |-> r.rules, channels |-> DefaultChannels]
             ELSE [rules |-> r.rules, channels |-> c.channels]

(* load_config: any exception ends in setup_default_config *)
load_config(f) ==
    IF f.kind # "object" THEN setup_default_config
    ELSE LET r == LoadRules(IF f.rules_present THEN f.rules ELSE << >>, 1, << >>)
             c == LoadChannels(IF f.channels_present THEN f.channels ELSE << >>,
                               1, EmptyMap)
         IN  IF ~r.ok \/ ~c.ok THEN setup_default_config
             ELSE [rules |-> r.rules, channels |-> c.channels]

(* AlertManager.__init__: the rules and channels it ends up with *)
AlertManagerInit(f) ==
    IF f.kind = "none" THEN setup_default_config ELSE load_config(f)

(* the order in which the channel dict is written *)
ChannelOrder == <<"email", "slack", "sns", "webhook", "pagerduty">>

(* save_config writing the rules last to first *)
save_config_reversed(rs, cs) ==
    LET names == SelectSeq(ChannelOrder, LAMBDA c : c \in DOMAIN cs)
    IN  ConfigFile("object",
            TRUE, [i \in 1..Len(rs) |->
                     [has |-> RuleKeys, rule |-> rs[Len(rs) + 1 - i]]],
            TRUE, [i \in 1..Len(names) |->
                     [name |-> names[i], has |-> ChannelKeys,
                      channel |-> cs[names[i]]]])

(* save_config: the file written for a rule list and a channel map *)
save_config(rs, cs) ==
    LET names == SelectSeq(ChannelOrder, LAMBDA c : c \in DOMAIN cs)
    IN  ConfigFile("object",
            TRUE, [i \in 1..Len(rs) |-> [has |-> RuleKeys, rule |-> rs[i]]],
            TRUE, [i \in 1..Len(names) |->
                     [name |-> names[i], has |-> ChannelKeys,
                      channel |-> cs[names[i]]]])

----------------------------------------------------------------------------
(* Metrics snapshots handed to evaluate_rules / process_alerts *)

Metrics(rt, ag, cpu, mem, st, dep) ==
    [response_time_ms |-> rt, active_daemon_agents |-> ag, cpu_percent |-> cpu,
     memory_percent |-> mem, status |-> st, deprecated |-> dep]

AllBad == Metrics(Num(6000), Num(2), Num(90), Num(90), Str("critical"), Num(1))

AllGood == Metrics(Num(100), Num(5), Num(10), Num(10), Str("healthy"), Num(0))

AtThreshold == Metrics(Num(5000), Num(3), Num(80), Num(85), Str("warning"), Num(0))

(* the collector reports response_time_ms: None when the request failed *)
NullResponse == Metrics(NullV, Num(2), Num(90), Num(90), Str("critical"), Num(0))

(* a collector that reports the agent count as None *)
NullAgents == Metrics(Num(6000), NullV, Num(90), Num(90), Str("critical"), Num(1))

EmptyMetrics == Metrics(AbsentV, AbsentV, AbsentV, AbsentV, AbsentV, AbsentV)

MetricsInputs == {AllBad, NullResponse, NullAgents}

----------------------------------------------------------------------------
(* _evaluate_condition: "true", "false", or "raise" (a TypeError from
   comparing None with the threshold, or from len(None)) *)

(* Greater with ">=" in place of ">" *)
GreaterOrEqual(field, threshold) ==
    IF field.k = "null" THEN "raise"
    ELSE IF field.v >= threshold THEN "true" ELSE "false"

Greater(field, threshold) ==
    IF field.k = "null" THEN "raise"
    ELSE IF field.v > threshold THEN "true" ELSE "false"

Less(field, threshold) ==
    IF field.k = "null" THEN "raise"
    ELSE IF field.v < threshold THEN "true" ELSE "false"

(* UnsupportedCondition raising for a condition it does not know *)
UnsupportedConditionRaises(rule) == "raise"

(* line 322: no branch matched *)
UnsupportedCondition(rule) == "false"

(* _evaluate_condition with the test of active_agents moved to the front *)
_evaluate_condition_agents_first(rule, metrics) ==
    IF "active_agents" \in rule.condition
        THEN Less(Get(metrics.active_daemon_agents, 0), rule.threshold)
    ELSE IF "response_time_ms" \in rule.condition
        THEN Greater(Get(metrics.response_time_ms, 0), rule.threshold)
    ELSE IF "cpu_percent" \in rule.condition
        THEN Greater(Get(metrics.cpu_percent, 0), rule.threshold)
    ELSE IF "memory_percent" \in rule.condition
        THEN Greater(Get(metrics.memory_percent, 0), rule.threshold)
    ELSE IF "overall_health == 'critical'" \in rule.condition
        THEN IF metrics.status.k = "str" /\ metrics.status.v = "critical"
             THEN "true" ELSE "false"
    ELSE IF "deprecated_services_detected" \in rule.condition
        THEN Greater(Get(metrics.deprecated, 0), rule.threshold)
    ELSE UnsupportedCondition(rule)

_evaluate_condition(rule, metrics) ==
    IF "response_time_ms" \in rule.condition
        THEN Greater(Get(metrics.response_time_ms, 0), rule.threshold)
    ELSE IF "active_agents" \in rule.condition
        THEN Less(Get(metrics.active_daemon_agents, 0), rule.threshold)
    ELSE IF "cpu_percent" \in rule.condition
        THEN Greater(Get(metrics.cpu_percent, 0), rule.threshold)
    ELSE IF "memory_percent" \in rule.condition
        THEN Greater(Get(metrics.memory_percent, 0), rule.threshold)
    ELSE IF "overall_health == 'critical'" \in rule.condition
        THEN IF metrics.status.k = "str" /\ metrics.status.v = "critical"
             THEN "true" ELSE "false"
    ELSE IF "deprecated_services_detected" \in rule.condition
        THEN Greater(Get(metrics.deprecated, 0), rule.threshold)
    ELSE UnsupportedCondition(rule)

(* _generate_alert_message builds the message of every known rule before it
   picks one; the three ":.1f" formats raise on a value that is None *)
_generate_alert_message_raises(metrics) ==
    \/ Get(metrics.response_time_ms, 0).k = "null"
    \/ Get(metrics.cpu_percent, 0).k = "null"
    \/ Get(metrics.memory_percent, 0).k = "null"

----------------------------------------------------------------------------
(* evaluate_rules *)

AlertId(rule, t) == <<rule.name, t \div TicksPerSec>>

NoId == <<"", 0>>

(* InCooldown with "<=" in place of "<": an elapsed time equal to the
   cooldown still suppresses *)
InCooldownInclusive(rule, last, t) ==
    /\ rule.name \in DOMAIN last
    /\ t - last[rule.name] <= rule.cooldown * TicksPerSec

(* InCooldown with the cooldown counted only once a delivery of an alert of
   the rule has succeeded *)
InCooldownAfterDelivery(rule, last, t) ==
    /\ rule.name \in DOMAIN last
    /\ t - last[rule.name] < rule.cooldown * TicksPerSec
    /\ \E n \in DOMAIN delivery_log :
          /\ alerts[delivery_log[n].alert].component = rule.name
          /\ delivery_log[n].result = "sent"

InCooldown(rule, last, t) ==
    /\ rule.name \in DOMAIN last
    /\ t - last[rule.name] < rule.cooldown * TicksPerSec

(* Alert(...): the object built at lines 273-281; `rule` remembers which
   entry of self.rules built it *)
NewAlert(rule, i, t) ==
    [alert_id |-> AlertId(rule, t), level |-> rule.level,
     component |-> rule.name, timestamp |-> t, rule |-> i,
     resolved |-> FALSE, acknowledged |-> FALSE]

(* Trigger without line 285: the cooldown is never started *)
TriggerNoCooldown(rule, i, t, st) ==
    LET ref == Len(st.alerts) + 1
        alert == NewAlert(rule, i, t)
    IN  [st EXCEPT !.alerts = Append(@, alert),
                   !.triggered = Append(@, ref),
                   !.active = Put(@, alert.alert_id, ref)]

(* lines 283-285: record the alert and start the cooldown *)
Trigger(rule, i, t, st) ==
    LET ref == Len(st.alerts) + 1
        alert == NewAlert(rule, i, t)
    IN  [st EXCEPT !.alerts = Append(@, alert),
                   !.triggered = Append(@, ref),
                   !.active = Put(@, alert.alert_id, ref),
                   !.last = Put(@, rule.name, t)]

(* RuleSkipped without the test of rule.enabled *)
RuleSkippedNever(rule) == FALSE

(* lines 257-258: a disabled rule is passed over *)
RuleSkipped(rule) == ~rule.enabled

(* ConditionHeld with the rule's duration enforced: a single sample shows
   the condition for no time at all, which is enough for duration 0 only *)
ConditionHeldForDuration(rule, cond) == cond = "true" /\ rule.duration = 0

(* line 262: the result of _evaluate_condition on the current sample decides;
   rule.duration is not read *)
ConditionHeld(rule, cond) == cond = "true"

(* Suppress with the last-notified time moved to the suppressed trigger *)
SuppressExtends(rule, t, st) == [st EXCEPT !.last = Put(@, rule.name, t)]

(* lines 267-271: a rule in cooldown is passed over by `continue` *)
Suppress(rule, t, st) == st

RECURSIVE EvalFrom(_, _, _)

(* OnRuleError with the try around the loop instead of inside it *)
OnRuleErrorAbort(i, metrics, st) == [st EXCEPT !.raised = TRUE]

(* the except clause of the loop body: log, go on with the next rule *)
OnRuleError(i, metrics, st) == EvalFrom(i + 1, metrics, st)

(* the for loop of evaluate_rules from rule i on; st carries the manager's
   fields as the loop changes them, the list being returned, and a trace of
   what happened to each enabled rule *)
EvalFrom(i, metrics, st) ==
    IF i > Len(rules) THEN st
    ELSE LET rule == rules[i]
             cond == _evaluate_condition(rule, metrics)
             Note(o) == [st EXCEPT !.trace = Append(@, [rule |-> i, outcome |-> o])]
         IN  IF RuleSkipped(rule) THEN EvalFrom(i + 1, metrics, st)
             ELSE IF cond = "raise"
                 THEN OnRuleError(i, metrics, Note("condition_error"))
             ELSE IF ~ConditionHeld(rule, cond)
                 THEN EvalFrom(i + 1, metrics, Note("false"))
             ELSE IF InCooldown(rule, st.last, now)
                 THEN EvalFrom(i + 1, metrics, Suppress(rule, now, Note("cooldown")))
             ELSE IF _generate_alert_message_raises(metrics)
                 THEN OnRuleError(i, metrics, Note("message_error"))
             ELSE EvalFrom(i + 1, metrics, Trigger(rule, i, now, Note("fired")))

evaluate_rules(metrics) ==
    EvalFrom(1, metrics,
             [alerts |-> alerts, active |-> active_alerts,
              last |-> last_notification, triggered |-> << >>,
              trace |-> << >>, raised |-> FALSE])

----------------------------------------------------------------------------
(* send_alert and the five channel senders.  `fail` is the set of channels
   whose delivery (SMTP, HTTP, SNS) raises during this call.  A sender's
   result is "unconfigured" (warning, return before any delivery), "sent",
   "failed" (the delivery raised) or "keyerror" (a missing configuration
   key raised before any delivery). *)

_send_email_alert(c, fail) ==
    IF ~c.configured THEN "unconfigured"
    ELSE IF ~c.complete THEN "keyerror"
    ELSE IF "email" \in fail THEN "failed" ELSE "sent"

_send_slack_alert(c, fail) ==
    IF ~c.configured THEN "unconfigured"
    ELSE IF "slack" \in fail THEN "failed" ELSE "sent"

_send_sns_alert(c, fail) ==
    IF ~c.configured THEN "unconfigured"
    ELSE IF "sns" \in fail THEN "failed" ELSE "sent"

_send_webhook_alert(c, fail) ==
    IF ~c.configured THEN "unconfigured"
    ELSE IF "webhook" \in fail THEN "failed" ELSE "sent"

(* PagerSeverity with the emergency level left out of the list *)
PagerSeverityCriticalOnly(level) ==
    IF level = "critical" THEN "critical" ELSE "warning"

(* line 511: the severity of the pager event *)
PagerSeverity(level) ==
    IF level \in {"critical", "emergency"} THEN "critical" ELSE "warning"

(* lines 506-519: the payload that _send_pagerduty_alert posts; the
   dedup_key is the f-string of line 509 *)
_pagerduty_payload(alert) ==
    [event_action |-> "trigger",
     dedup_key |-> alert.component \o "_" \o alert.level,
     severity |-> PagerSeverity(alert.level),
     component |-> alert.component]

(* _send_pagerduty_alert without the test of integration_key *)
_send_pagerduty_alert_unchecked(c, fail) ==
    IF "pagerduty" \in fail THEN "failed" ELSE "sent"

_send_pagerduty_alert(c, fail) ==
    IF ~c.configured THEN "unconfigured"
    ELSE IF "pagerduty" \in fail THEN "failed" ELSE "sent"

Deliver(ch, fail) ==
    CASE ch = "email"     -> _send_email_alert(channels[ch], fail)
      [] ch = "slack"     -> _send_slack_alert(channels[ch], fail)
      [] ch = "sns"       -> _send_sns_alert(channels[ch], fail)
      [] ch = "webhook"   -> _send_webhook_alert(channels[ch], fail)
      [] ch = "pagerduty" -> _send_pagerduty_alert(channels[ch], fail)

IsError(res) == res \in {"failed", "keyerror"}

(* ChannelUsable without the test of channel.enabled *)
ChannelUsableMissingOnly(ch) == ch \in DOMAIN channels

(* lines 340-345: a channel missing from self.channels or disabled is skipped *)
ChannelUsable(ch) == ch \in DOMAIN channels /\ channels[ch].enabled

RECURSIVE SendFrom(_, _, _, _, _)

(* OnDeliveryError without the try: the exception leaves send_alert *)
OnDeliveryErrorAbort(ref, chans, i, fail, acc) == [acc EXCEPT !.raised = TRUE]

(* OnDeliveryError with one more attempt on the channel that failed *)
OnDeliveryErrorRetry(ref, chans, i, fail, acc) ==
    SendFrom(ref, chans, i + 1, fail,
             [acc EXCEPT !.log = Append(@, [alert |-> ref, channel |-> chans[i],
                                            result |-> Deliver(chans[i], fail)])])

(* the except clause of send_alert: log the error, go on with the next channel *)
OnDeliveryError(ref, chans, i, fail, acc) == SendFrom(ref, chans, i + 1, fail, acc)

(* the for loop of send_alert from channel i on; acc.log is the delivery log,
   acc.raised whether an exception left send_alert *)
SendFrom(ref, chans, i, fail, acc) ==
    IF i > Len(chans) THEN acc
    ELSE IF ~ChannelUsable(chans[i]) THEN SendFrom(ref, chans, i + 1, fail, acc)
    ELSE LET res == Deliver(chans[i], fail)
             entry == [alert |-> ref, channel |-> chans[i], result |-> res]
             acc2 == [acc EXCEPT !.log = Append(@, entry)]
         IN  IF IsError(res) THEN OnDeliveryError(ref, chans, i, fail, acc2)
             ELSE SendFrom(ref, chans, i + 1, fail, acc2)

send_alert(ref, chans, fail, acc) == SendFrom(ref, chans, 1, fail, acc)

----------------------------------------------------------------------------
(* process_alerts *)

(* next((r for r in self.rules if r.name == alert.component), None):
   the index of the first rule of that name, 0 for None *)
FindRule(name) ==
    LET hits == {i \in 1..Len(rules) : rules[i].name = name}
    IN  IF hits = {} THEN 0 ELSE CHOOSE i \in hits : \A j \in hits : i <= j

RECURSIVE SendAll(_, _, _, _, _)

(* the for loop over new_alerts from the k-th new alert on *)
SendAll(refs, k, heap, fail, acc) ==
    IF k > Len(refs) \/ acc.raised THEN acc
    ELSE LET r == FindRule(heap[refs[k]].component)
         IN  IF r = 0 THEN SendAll(refs, k + 1, heap, fail, acc)
             ELSE SendAll(refs, k + 1, heap, fail,
                          send_alert(refs[k], rules[r].channels, fail, acc))

(* TrimHistory with the slice computed and dropped *)
TrimHistoryKeepAll(h) == h

(* TrimHistory keeping the first 100 instead of the last 100 *)
TrimHistoryKeepFirst(h) == IF Len(h) > HistoryCap THEN FirstN(h, HistoryCap) ELSE h

(* lines 543-544: keep the last 100 *)
TrimHistory(h) == IF Len(h) > HistoryCap THEN LastN(h, HistoryCap) ELSE h

(* what last_op remembers of a call: its name, the id passed and the object
   it found (0: none), whether an exception left the call, the references
   returned, the trace of the rule loop, and the length of the delivery log
   before the call *)
Op(name, id, ref, raised, new, trace, from) ==
    [name |-> name, id |-> id, ref |-> ref, raised |-> raised, new |-> new,
     trace |-> trace, from |-> from]

(* process_alerts(metrics); an exception that leaves evaluate_rules or
   send_alert leaves process_alerts too, before the history is extended *)
ProcessAlerts(metrics, fail) ==
    LET ev == evaluate_rules(metrics)
        sent == IF ev.raised THEN [log |-> delivery_log, raised |-> TRUE]
                ELSE SendAll(ev.triggered, 1, ev.alerts, fail,
                             [log |-> delivery_log, raised |-> FALSE])
    IN  /\ alerts' = ev.alerts
        /\ active_alerts' = ev.active
        /\ last_notification' = ev.last
        /\ delivery_log' = sent.log
        /\ alert_history' = IF sent.raised THEN alert_history
                            ELSE TrimHistory(alert_history \o ev.triggered)
        /\ last_op' = Op("process_alerts", NoId, 0, sent.raised,
                         ev.triggered, ev.trace, Len(delivery_log))
        /\ calls' = calls + 1
        /\ UNCHANGED <<rules, channels, now>>
        /\ UNCHANGED <<config_file, system_monitor, monitor_vars>>

(* evaluate_rules(metrics) called on its own *)
EvaluateRules(metrics) ==
    LET ev == evaluate_rules(metrics)
    IN  /\ alerts' = ev.alerts
        /\ active_alerts' = ev.active
        /\ last_notification' = ev.last
        /\ last_op' = Op("evaluate_rules", NoId, 0, ev.raised,
                         ev.triggered, ev.trace, Len(delivery_log))
        /\ calls' = calls + 1
        /\ UNCHANGED <<rules, channels, now, alert_history, delivery_log>>
        /\ UNCHANGED <<config_file, system_monitor, monitor_vars>>

----------------------------------------------------------------------------
(* acknowledge_alert, resolve_alert, get_active_alerts, get_alert_summary *)

(* the object active_alerts holds under id, 0 when it holds none *)
Lookup(id) == IF id \in DOMAIN active_alerts THEN active_alerts[id] ELSE 0

AcknowledgeAlert(id) ==
    /\ IF id \in DOMAIN active_alerts
       THEN alerts' = [alerts EXCEPT ![active_alerts[id]].acknowledged = TRUE]
       ELSE UNCHANGED alerts
    /\ last_op' = Op("acknowledge_alert", id, Lookup(id), FALSE,
                     << >>, << >>, Len(delivery_log))
    /\ UNCHANGED <<rules, channels, now, active_alerts, alert_history,
                   last_notification, delivery_log, calls>>
    /\ UNCHANGED <<config_file, system_monitor, monitor_vars>>

(* ResolveAlert without line 561: the entry is deleted, the flag not set *)
ResolveAlertDeleteOnly(id) ==
    /\ IF id \in DOMAIN active_alerts
       THEN /\ active_alerts' = Remove(active_alerts, id)
            /\ UNCHANGED alerts
       ELSE UNCHANGED <<alerts, active_alerts>>
    /\ last_op' = Op("resolve_alert", id, Lookup(id), FALSE,
                     << >>, << >>, Len(delivery_log))
    /\ UNCHANGED <<rules, channels, now, alert_history, last_notification,
                   delivery_log, calls>>
    /\ UNCHANGED <<config_file, system_monitor, monitor_vars>>

(* ResolveAlert without the membership test: del raises KeyError *)
ResolveAlertUnguarded(id) ==
    /\ IF id \in DOMAIN active_alerts
       THEN /\ alerts' = [alerts EXCEPT ![active_alerts[id]].resolved = TRUE]
            /\ active_alerts' = Remove(active_alerts, id)
       ELSE UNCHANGED <<alerts, active_alerts>>
    /\ last_op' = Op("resolve_alert", id, Lookup(id), id \notin DOMAIN active_alerts,
                     << >>, << >>, Len(delivery_log))
    /\ UNCHANGED <<rules, channels, now, alert_history, last_notification,
                   delivery_log, calls>>
    /\ UNCHANGED <<config_file, system_monitor, monitor_vars>>

(* ResolveAlert that also forgets the rule's last notification *)
ResolveAlertClearsCooldown(id) ==
    /\ IF id \in DOMAIN active_alerts
       THEN /\ alerts' = [alerts EXCEPT ![active_alerts[id]].resolved = TRUE]
            /\ active_alerts' = Remove(active_alerts, id)
            /\ last_notification' =
                  Remove(last_notification, alerts[active_alerts[id]].component)
       ELSE UNCHANGED <<alerts, active_alerts, last_notification>>
    /\ last_op' = Op("resolve_alert", id, Lookup(id), FALSE,
                     << >>, << >>, Len(delivery_log))
    /\ UNCHANGED <<rules, channels, now, alert_history, delivery_log, calls>>
    /\ UNCHANGED <<config_file, system_monitor, monitor_vars>>

ResolveAlert(id) ==
    /\ IF id \in DOMAIN active_alerts
       THEN /\ alerts' = [alerts EXCEPT ![active_alerts[id]].resolved = TRUE]
            /\ active_alerts' = Remove(active_alerts, id)
       ELSE UNCHANGED <<alerts, active_alerts>>
    /\ last_op' = Op("resolve_alert", id, Lookup(id), FALSE,
                     << >>, << >>, Len(delivery_log))
    /\ UNCHANGED <<rules, channels, now, alert_history, last_notification,
                   delivery_log, calls>>
    /\ UNCHANGED <<config_file, system_monitor, monitor_vars>>

(* list(self.active_alerts.values()), as the set of objects it holds *)
get_active_alerts == {active_alerts[id] : id \in DOMAIN active_alerts}

(* RecentAlerts taking the slice from the front of the history *)
RecentAlertsOldest(history) == FirstN(history, SummaryRecent)

(* line 587: self.alert_history[-10:] *)
RecentAlerts(history) == LastN(history, SummaryRecent)

get_alert_summary ==
    LET recent == RecentAlerts(alert_history)
    IN  [active_alerts_count |-> Cardinality(DOMAIN active_alerts),
         alerts_by_level |->
            [l \in AlertLevel |->
                Cardinality({id \in DOMAIN active_alerts :
                                alerts[active_alerts[id]].level = l})],
         recent_alerts |->
            [k \in 1..Len(recent) |->
                [id |-> alerts[recent[k]].alert_id,
                 level |-> alerts[recent[k]].level,
                 component |-> alerts[recent[k]].component,
                 timestamp |-> alerts[recent[k]].timestamp,
                 acknowledged |-> alerts[recent[k]].acknowledged,
                 resolved |-> alerts[recent[k]].resolved]]]

----------------------------------------------------------------------------
(* check_system_health: the scoring of the check results (lines 68-94).
   `checks` maps the name of each check in health_data to its status; the
   score is kept in tenths, as round(overall_score, 1) keeps one decimal. *)

CheckOrder ==
    <<"discovery_server", "daemon_agents", "system_resources",
      "deprecated_services">>

critical_checks == {"discovery_server", "daemon_agents"}

(* the statuses a check may report; "degraded" stands for any string that
   is not a key of the score table *)
CheckStatus == {"healthy", "warning", "failed", "unknown", "degraded"}

(* StatusScore with no entry for "failed", which then scores the default *)
StatusScoreWithoutFailed(status) ==
    CASE status = "healthy" -> 100
      [] status = "warning" -> 70
      [] OTHER              -> 50

(* lines 75-80: the score table, 50 for a status it does not hold *)
StatusScore(status) ==
    CASE status = "healthy" -> 100
      [] status = "warning" -> 70
      [] status = "failed"  -> 0
      [] OTHER              -> 50

(* Weight with every check counted once *)
WeightOne(check) == 1

(* line 83 *)
Weight(check) == IF check \in critical_checks THEN 2 ELSE 1

RECURSIVE HealthScores(_, _)

(* the loop of lines 71-84 from the i-th check on: the list health_scores *)
HealthScores(checks, i) ==
    IF i > Len(CheckOrder) THEN << >>
    ELSE IF CheckOrder[i] \notin DOMAIN checks THEN HealthScores(checks, i + 1)
    ELSE [k \in 1..Weight(CheckOrder[i]) |-> StatusScore(checks[CheckOrder[i]])]
             \o HealthScores(checks, i + 1)

RECURSIVE SumSeq(_)

SumSeq(s) == IF s = << >> THEN 0 ELSE Head(s) + SumSeq(Tail(s))

(* round(total / n, 1), in tenths *)
Round1(total, n) == (20 * total + n) \div (2 * n)

(* OverallStatus with the bar for healthy at 80 *)
OverallStatusLenient(total, n) ==
    IF n = 0 THEN "critical"
    ELSE IF total >= 80 * n THEN "healthy"
    ELSE IF total >= 70 * n THEN "warning"
    ELSE "critical"

(* OverallStatus with a strict comparison against 90 *)
OverallStatusStrict(total, n) ==
    IF n = 0 THEN "critical"
    ELSE IF total > 90 * n THEN "healthy"
    ELSE IF total >= 70 * n THEN "warning"
    ELSE "critical"

(* lines 87-94: overall_score is total / n, or 0 for an empty list *)
OverallStatus(total, n) ==
    IF n = 0 THEN "critical"
    ELSE IF total >= 90 * n THEN "healthy"
    ELSE IF total >= 70 * n THEN "warning"
    ELSE "critical"

overall_health(checks) ==
    LET health_scores == HealthScores(checks, 1)
        total == SumSeq(health_scores)
        n == Len(health_scores)
    IN  [checks |-> checks,
         score |-> IF n = 0 THEN 0 ELSE Round1(total, n),
         status |-> OverallStatus(total, n)]

(* before the first check: monitoring_data.system_status is "unknown" *)
NoHealth == [checks |-> EmptyMap, score |-> 0, status |-> "unknown"]

CheckSystemHealth(checks) ==
    /\ health_data' = overall_health(checks)
    /\ UNCHANGED <<rules, channels, now, alerts, active_alerts, alert_history,
                   last_notification, delivery_log, last_op, calls, config_file, system_monitor,
                   running, threads, process>>

----------------------------------------------------------------------------
(* The clock *)

Tick(d) ==
    /\ now' = now + d
    /\ UNCHANGED <<rules, channels, alerts, active_alerts, alert_history,
                   last_notification, delivery_log, last_op, calls>>
    /\ UNCHANGED <<config_file, system_monitor, monitor_vars>>

----------------------------------------------------------------------------
(* The monitoring loop of ProductionMonitor.start_monitoring.  Each call of
   start_monitoring starts one daemon thread that runs monitoring_loop; a
   thread is at "check" (the while test), inside run_monitoring_cycle at
   "evaluate" (check_system_health, then evaluate_rules), "dispatch" (the
   send_alert loop of process_alerts) or "append" (the history update), at
   "sleep", or "exited".  The threads are daemon threads and nobody joins
   them: when main returns, the interpreter ends and a thread still alive is
   stopped wherever it is. *)

MonitorInterval == 30

(* failed: a cycle of this thread has ended in the loop's except clause *)
Thread(pc, new, trace, from, killed, failed) ==
    [pc |-> pc, new |-> new, trace |-> trace, from |-> from, killed |-> killed,
     failed |-> failed]

(* what one check_system_health collects: the check statuses and the
   metrics the alert manager reads from the same health_data *)
Sample(checks, rt, ag, cpu, mem, dep) ==
    [checks |-> checks,
     metrics |-> Metrics(rt, ag, cpu, mem,
                         Str(overall_health(checks).status), dep)]

Checks(d, a, s, p) ==
    [c \in Range(CheckOrder) |->
        CASE c = "discovery_server"    -> d
          [] c = "daemon_agents"       -> a
          [] c = "system_resources"    -> s
          [] c = "deprecated_services" -> p]

(* all well; everything over its limit; the discovery server unreachable *)
MonitorSamples ==
    { Sample(Checks("healthy", "healthy", "healthy", "healthy"),
             Num(100), Num(5), Num(10), Num(10), AbsentV),
      Sample(Checks("warning", "warning", "critical", "warning"),
             Num(6000), Num(2), Num(96), Num(96), Num(1)),
      Sample(Checks("failed", "failed", "healthy", "healthy"),
             NullV, AbsentV, Num(10), Num(10), AbsentV) }

(* start_monitoring: set the flag, start one more loop thread *)
StartMonitoring ==
    /\ process = "up"
    /\ running' = TRUE
    /\ threads' = Append(threads, Thread("check", << >>, << >>, 0, FALSE, FALSE))
    /\ UNCHANGED <<rules, channels, now, alerts, active_alerts, alert_history,
                   last_notification, delivery_log, last_op, calls, config_file, system_monitor,
                   health_data, process>>

(* stop_monitoring: clear the flag *)
StopMonitoring ==
    /\ process = "up"
    /\ running' = FALSE
    /\ UNCHANGED <<rules, channels, now, alerts, active_alerts, alert_history,
                   last_notification, delivery_log, last_op, calls, config_file, system_monitor,
                   health_data, threads, process>>

(* while self.running *)
LoopCheck(t) ==
    /\ process = "up"
    /\ threads[t].pc = "check"
    /\ threads' = [threads EXCEPT ![t].pc = IF running THEN "evaluate" ELSE "exited"]
    /\ UNCHANGED <<rules, channels, now, alerts, active_alerts, alert_history,
                   last_notification, delivery_log, last_op, calls, config_file, system_monitor,
                   health_data, running, process>>

(* the thread in time.sleep: run_monitoring_cycle has returned or raised,
   and its local new_alerts is gone *)
Asleep(thread) == Thread("sleep", << >>, << >>, 0, FALSE, thread.failed)

(* run_monitoring_cycle up to the return of evaluate_rules *)
CycleEvaluate(t, sample) ==
    LET ev == evaluate_rules(sample.metrics)
    IN  /\ process = "up"
        /\ threads[t].pc = "evaluate"
        /\ health_data' = overall_health(sample.checks)
        /\ alerts' = ev.alerts
        /\ active_alerts' = ev.active
        /\ last_notification' = ev.last
        /\ calls' = calls + 1
        /\ threads' = [threads EXCEPT
                          ![t] = IF ev.raised THEN Asleep(threads[t])
                                 ELSE Thread("dispatch", ev.triggered, ev.trace,
                                             Len(delivery_log), FALSE,
                                             threads[t].failed)]
        /\ UNCHANGED <<rules, channels, now, alert_history, delivery_log,
                       last_op, config_file, system_monitor, running, process>>

(* OnCycleError with the try around the while loop: the thread ends *)
OnCycleErrorExit(t) == "exited"

(* lines 372-374: except Exception prints and sleeps; the loop goes on *)
OnCycleError(t) == "sleep"

(* run_monitoring_cycle raises before it reaches the alert manager: a check
   of check_system_health lets an exception through (the checks catch only
   RequestException, so a KeyError on a malformed agent entry escapes) *)
CycleRaise(t) ==
    /\ process = "up"
    /\ threads[t].pc = "evaluate"
    /\ calls' = calls + 1
    /\ threads' = [threads EXCEPT ![t].pc = OnCycleError(t), ![t].failed = TRUE]
    /\ UNCHANGED <<rules, channels, now, alerts, active_alerts, alert_history,
                   last_notification, delivery_log, last_op, config_file, system_monitor,
                   health_data, running, process>>

(* process_alerts, lines 533-537: the new alerts are sent *)
CycleDispatch(t, fail) ==
    LET sent == SendAll(threads[t].new, 1, alerts, fail,
                        [log |-> delivery_log, raised |-> FALSE])
    IN  /\ process = "up"
        /\ threads[t].pc = "dispatch"
        /\ delivery_log' = sent.log
        /\ threads' = [threads EXCEPT
                          ![t] = IF sent.raised THEN Asleep(threads[t])
                                 ELSE [threads[t] EXCEPT !.pc = "append"]]
        /\ UNCHANGED <<rules, channels, now, alerts, active_alerts,
                       alert_history, last_notification, last_op, calls,
                       config_file, system_monitor, health_data, running, process>>

(* process_alerts, lines 539-546: the history is extended; the rest of
   run_monitoring_cycle touches only monitoring_data *)
CycleAppend(t) ==
    /\ process = "up"
    /\ threads[t].pc = "append"
    /\ alert_history' = TrimHistory(alert_history \o threads[t].new)
    /\ last_op' = Op("process_alerts", NoId, 0, FALSE, threads[t].new,
                     threads[t].trace, threads[t].from)
    /\ threads' = [threads EXCEPT ![t] = Asleep(threads[t])]
    /\ UNCHANGED <<rules, channels, now, alerts, active_alerts,
                   last_notification, delivery_log, calls, config_file, system_monitor,
                   health_data, running, process>>

(* time.sleep(interval) returns *)
Wake(t) ==
    /\ process = "up"
    /\ threads[t].pc = "sleep"
    /\ now' = now + MonitorInterval * TicksPerSec
    /\ threads' = [threads EXCEPT ![t].pc = "check"]
    /\ UNCHANGED <<rules, channels, alerts, active_alerts, alert_history,
                   last_notification, delivery_log, last_op, calls, config_file, system_monitor,
                   health_data, running, process>>

(* main returns after stop_monitoring: the interpreter ends, and with it
   every loop thread that has not left its loop *)
ProcessExit ==
    /\ process = "up"
    /\ process' = "exited"
    /\ threads' = [t \in DOMAIN threads |->
                     IF threads[t].pc = "exited" THEN threads[t]
                     ELSE [threads[t] EXCEPT !.killed = TRUE]]
    /\ UNCHANGED <<rules, channels, now, alerts, active_alerts, alert_history,
                   last_notification, delivery_log, last_op, calls, config_file, system_monitor,
                   health_data, running>>

----------------------------------------------------------------------------
(* Specifications *)

(* monitor-system-health.py, the stand-alone health checker *)

CheckNames ==
    {"discovery_server", "daemon_agents", "dashboard_api", "deprecated_services"}

(* the statuses each check method can return *)
check_discovery_server == {"healthy", "unhealthy", "failed"}

check_daemon_agents == {"healthy", "warning", "failed"}

check_dashboard_api == {"healthy", "warning", "failed"}

check_deprecated_services == {"healthy", "warning"}

CheckResults ==
    { c \in [CheckNames -> {"healthy", "warning", "unhealthy", "failed"}] :
        /\ c["discovery_server"] \in check_discovery_server
        /\ c["daemon_agents"] \in check_daemon_agents
        /\ c["dashboard_api"] \in check_dashboard_api
        /\ c["deprecated_services"] \in check_deprecated_services }

(* the overall status run_health_checks derives from the checks' statuses *)
OverallOfStatuses(statuses) ==
    IF "failed" \in statuses THEN "failed"
    ELSE IF "warning" \in statuses THEN "warning"
    ELSE "healthy"

(* exit_codes.get(report['status'], 3) *)
exit_codes(status) ==
    CASE status = "healthy" -> 0
      [] status = "warning" -> 1
      [] status = "failed" -> 2
      [] OTHER -> 3

NoExit == 0 - 1

(* __init__: health_report = {"timestamp": None, "status": "unknown", "checks": {}} *)
SystemMonitor(continuous) ==
    [ continuous |-> continuous, pc |-> "start",
      health_report |-> [status |-> "unknown", checks |-> EmptyMap],
      exit_code |-> NoExit ]

(* run_health_checks, called by main once or in each round of the loop *)
RunHealthChecks(checks) ==
    /\ system_monitor.pc \in {"start", "sleep"}
    /\ system_monitor' =
          [system_monitor EXCEPT
              !.health_report = [ status |-> OverallOfStatuses({checks[c] : c \in DOMAIN checks}),
                                  checks |-> checks ],
              !.pc = IF system_monitor.continuous THEN "sleep" ELSE "report"]
    /\ UNCHANGED <<rules, channels, now, alerts, active_alerts, alert_history,
                   last_notification, delivery_log, last_op, calls, config_file,
                   monitor_vars>>

(* the single run: sys.exit with the code of the report's status *)
SingleRunExit ==
    /\ system_monitor.pc = "report"
    /\ system_monitor' =
          [system_monitor EXCEPT
              !.exit_code = exit_codes(system_monitor.health_report.status),
              !.pc = "exited"]
    /\ UNCHANGED <<rules, channels, now, alerts, active_alerts, alert_history,
                   last_notification, delivery_log, last_op, calls, config_file,
                   monitor_vars>>

(* continuous mode: KeyboardInterrupt during the sleep, main returns *)
KeyboardInterrupt ==
    /\ system_monitor.pc = "sleep"
    /\ system_monitor' = [system_monitor EXCEPT !.exit_code = 0, !.pc = "exited"]
    /\ UNCHANGED <<rules, channels, now, alerts, active_alerts, alert_history,
                   last_notification, delivery_log, last_op, calls, config_file,
                   monitor_vars>>

(* AlertManager.__init__: empty maps, then the configuration *)
InitProgramsWith(cfgs) ==
    /\ \E cfg \in cfgs :
          /\ rules = cfg.rules
          /\ channels = cfg.channels
          /\ config_file = IF cfg = setup_default_config THEN NoFile
                           ELSE save_config(cfg.rules, cfg.channels)
    /\ health_data = NoHealth
    /\ running = FALSE
    /\ threads = << >>
    /\ process = "up"
    /\ now = 0
    /\ alerts = << >>
    /\ active_alerts = EmptyMap
    /\ alert_history = << >>
    /\ last_notification = EmptyMap
    /\ delivery_log = << >>
    /\ last_op = Op("init", NoId, 0, FALSE, << >>, << >>, 0)
    /\ calls = 0

(* ... with monitor-system-health.py not yet run *)
InitWith(cfgs) ==
    /\ InitProgramsWith(cfgs)
    /\ system_monitor = SystemMonitor(FALSE)

Init == InitWith(Configs)

FailInputs == {{}, {"slack"}}

(* ids a caller may pass: the id of the newest alert and an id that was
   never issued *)
IdInputs ==
    {alerts[r].alert_id : r \in {Len(alerts)} \cap DOMAIN alerts}
        \cup {<<"no_such_alert", 0>>}

DoTick == now < MaxTime /\ Tick(1)

DoProcess ==
    /\ calls < MaxCalls
    /\ \E m \in MetricsInputs, f \in FailInputs : ProcessAlerts(m, f)

DoEvaluate ==
    /\ calls < MaxCalls
    /\ EvaluateRules(AllBad)

DoAcknowledge == \E id \in IdInputs : AcknowledgeAlert(id)

DoResolve == \E id \in IdInputs : ResolveAlert(id)

Next == DoTick \/ DoProcess \/ DoEvaluate \/ DoAcknowledge \/ DoResolve

Spec == Init /\ [][Next]_vars

(* A long run of the default configuration under a periodic driver: one
   process_alerts call per cooldown period, every rule's condition true, so
   that the history passes its cap *)
HistStep == DefaultCooldown * TicksPerSec

HistInit == InitWith({[rules |-> DefaultRules, channels |-> DefaultChannels]})

(* ids passed in the long run: the oldest alert, the alert that fills the
   history, and an id that was never issued *)
HistIdInputs ==
    {alerts[r].alert_id : r \in {1, HistoryCap} \cap DOMAIN alerts}
        \cup {<<"no_such_alert", 0>>}

HistTick == calls * HistStep = now + HistStep /\ calls < HistCycles /\ Tick(HistStep)

HistProcess == calls * HistStep = now /\ ProcessAlerts(AllBad, {})

HistAcknowledge == \E id \in HistIdInputs : AcknowledgeAlert(id)

HistResolve == \E id \in HistIdInputs : ResolveAlert(id)

HistNext == HistTick \/ HistProcess \/ HistAcknowledge \/ HistResolve

SpecHist == HistInit /\ [][HistNext]_vars

(* Dispatch over every channel configuration: two rules that list all five
   channels, each channel enabled and configured, enabled with its required
   field empty, or disabled *)
SendRules ==
    << Rule("high_response_time", {"response_time_ms"}, 5000, 60, "warning",
            ChannelOrder, DefaultCooldown, TRUE),
       Rule("agent_down", {"active_agents"}, 3, 30, "critical",
            <<"pagerduty", "webhook", "sns", "slack", "email">>,
            DefaultCooldown, TRUE) >>

SendChannels ==
    [AlertChannel -> {Channel(TRUE, TRUE, TRUE), Channel(TRUE, FALSE, TRUE),
                      Channel(FALSE, FALSE, TRUE)}]

SendInit == InitWith({[rules |-> SendRules, channels |-> cs] : cs \in SendChannels})

SendProcess ==
    /\ calls < MaxCalls
    /\ \E f \in {{}, AlertChannel} : ProcessAlerts(AllBad, f)

SendNext == SendProcess

SpecSend == SendInit /\ [][SendNext]_vars

(* evaluate_rules over a grid of metrics around the thresholds: the default
   rules, and a loaded rule list that starts with a rule whose condition
   names no supported metric.  The response time is absent, None (the
   collector's value for a failed request) or a number; the agent count is
   absent (the collector's result for a failed request) or a number; the
   other metrics are well-formed.  The clock may pass one cooldown period. *)
EvalRulesD ==
    << Rule("disk_full", {}, 90, 0, "info", <<"email">>, DefaultCooldown, TRUE),
       Rule("high_response_time", {"response_time_ms"}, 5000, 60, "warning",
            <<"email", "slack">>, DefaultCooldown, TRUE),
       Rule("agent_down", {"active_agents"}, 3, 30, "critical",
            <<"email", "slack", "sns">>, DefaultCooldown, TRUE) >>

EvalMetrics ==
    { Metrics(rt, ag, Num(90), Num(10), Str("warning"), Num(0)) :
        rt \in {AbsentV, NullV, Num(4999), Num(5000), Num(5001)},
        ag \in {AbsentV, Num(2), Num(3), Num(4)} }

EvalInit ==
    InitWith({[rules |-> DefaultRules, channels |-> DefaultChannels],
              [rules |-> EvalRulesD, channels |-> DefaultChannels]})

EvalEvaluate ==
    /\ calls < MaxCalls
    /\ \E m \in EvalMetrics : EvaluateRules(m)

EvalTick == now < HistStep /\ Tick(HistStep)

EvalNext == EvalEvaluate \/ EvalTick

SpecEval == EvalInit /\ [][EvalNext]_vars

(* The health scorer over every map of check results.  check_system_health
   itself always scores its four checks; the scoring loop is written for any
   health_data, an empty one included, so the maps over every subset of the
   four check names are scored. *)
CheckMaps == UNION {[S -> CheckStatus] : S \in SUBSET Range(CheckOrder)}

HealthInit == InitWith({setup_default_config})

HealthCheck == \E checks \in CheckMaps : CheckSystemHealth(checks)

HealthNext == HealthCheck

SpecHealth == HealthInit /\ [][HealthNext]_vars

(* Construction from a configuration file.  WithRule(k, x) and
   WithChannel(k, x) are the file of LoadedRulesA / LoadedChannelsA with its
   k-th rule entry, or k-th channel entry, replaced by x. *)
WellFormedFile == save_config(LoadedRulesA, LoadedChannelsA)

WithRule(k, x) == [WellFormedFile EXCEPT !.rules[k] = x]

WithChannel(k, x) == [WellFormedFile EXCEPT !.channels[k] = x]

ConfigFiles ==
    { NoFile,
      ConfigFile("unreadable", FALSE, << >>, FALSE, << >>),
      ConfigFile("invalid_json", FALSE, << >>, FALSE, << >>),
      ConfigFile("not_object", FALSE, << >>, FALSE, << >>),
      WellFormedFile,
      \* an entry without the optional keys cooldown and enabled
      WithRule(3, [has |-> RuleRequired, rule |-> LoadedRulesA[3]]),
      \* entries with a missing key, an unknown level, an unknown channel
      WithRule(2, [has |-> RuleKeys \ {"name"}, rule |-> LoadedRulesA[2]]),
      WithRule(2, [has |-> RuleKeys,
                   rule |-> [LoadedRulesA[2] EXCEPT !.level = "fatal"]]),
      WithRule(4, [has |-> RuleKeys,
                   rule |-> [LoadedRulesA[4] EXCEPT !.channels = <<"email", "sms">>]]),
      WithChannel(2, [name |-> "slack", has |-> {"enabled"},
                      channel |-> LoadedChannelsA["slack"]]),
      WithChannel(4, [name |-> "sms", has |-> ChannelKeys,
                      channel |-> LoadedChannelsA["pagerduty"]]),
      \* objects that lack a section
      ConfigFile("object", FALSE, << >>, FALSE, << >>),
      [WellFormedFile EXCEPT !.rules_present = FALSE, !.rules = << >>],
      [WellFormedFile EXCEPT !.channels_present = FALSE, !.channels = << >>] }

ConfigInit ==
    /\ config_file \in ConfigFiles
    /\ rules = AlertManagerInit(config_file).rules
    /\ channels = AlertManagerInit(config_file).channels
    /\ now = 0
    /\ alerts = << >>
    /\ active_alerts = EmptyMap
    /\ alert_history = << >>
    /\ last_notification = EmptyMap
    /\ delivery_log = << >>
    /\ last_op = Op("init", NoId, 0, FALSE, << >>, << >>, 0)
    /\ calls = 0
    /\ health_data = NoHealth
    /\ running = FALSE
    /\ threads = << >>
    /\ process = "up"
    /\ system_monitor = SystemMonitor(FALSE)

ConfigProcess ==
    /\ calls < MaxCalls
    /\ \E m \in {AllBad, AllGood} : ProcessAlerts(m, {})

ConfigTick == now < MaxTime /\ Tick(1)

ConfigNext == ConfigProcess \/ ConfigTick

SpecConfig == ConfigInit /\ [][ConfigNext]_vars

(* The monitor as main drives it: start_monitoring, the loop threads, then
   stop_monitoring and the return of main (lines 580-589); MaxThreads bounds
   the calls of start_monitoring and MaxCycles the monitoring cycles *)
MonitorInit == InitWith({setup_default_config})

MonStart == Len(threads) < MaxThreads /\ StartMonitoring

MonStop == running /\ threads # << >> /\ StopMonitoring

MonCheck == \E t \in DOMAIN threads : (running => calls < MaxCycles) /\ LoopCheck(t)

MonEvaluate == \E t \in DOMAIN threads, s \in MonitorSamples : CycleEvaluate(t, s)

MonRaise == \E t \in DOMAIN threads : CycleRaise(t)

MonDispatch == \E t \in DOMAIN threads : CycleDispatch(t, {})

MonAppend == \E t \in DOMAIN threads : CycleAppend(t)

MonWake == \E t \in DOMAIN threads : Wake(t)

MonExit == ~running /\ threads # << >> /\ ProcessExit

MonitorNext ==
    \/ MonStart
    \/ MonStop
    \/ MonCheck
    \/ MonEvaluate
    \/ MonRaise
    \/ MonDispatch
    \/ MonAppend
    \/ MonWake
    \/ MonExit

SpecMonitor == MonitorInit /\ [][MonitorNext]_vars

(* The pager channel over every alert level: two rules that page, each with
   any level a configuration file can give it; the pager channel is enabled
   and configured, enabled without its integration key, or disabled, the
   other channels are disabled; the pager service accepts or refuses. *)
PagerRules ==
    { << Rule("high_response_time", {"response_time_ms"}, 5000, 60, l1,
              <<"pagerduty">>, DefaultCooldown, TRUE),
         Rule("agent_down", {"active_agents"}, 3, 30, l2,
              <<"pagerduty", "email">>, DefaultCooldown, TRUE) >> :
        l1 \in AlertLevel, l2 \in AlertLevel }

PagerChannels ==
    { [c \in AlertChannel |-> IF c = "pagerduty" THEN p
                               ELSE Channel(FALSE, FALSE, TRUE)] :
        p \in {Channel(TRUE, TRUE, TRUE), Channel(TRUE, FALSE, TRUE),
                Channel(FALSE, FALSE, TRUE)} }

PagerInit ==
    InitWith({[rules |-> rs, channels |-> cs] : rs \in PagerRules, cs \in PagerChannels})

PagerProcess ==
    /\ calls < MaxCalls
    /\ \E f \in {{}, {"pagerduty"}} : ProcessAlerts(AllBad, f)

PagerTick == now < MaxTime /\ Tick(1)

PagerNext == PagerProcess \/ PagerTick

SpecPager == PagerInit /\ [][PagerNext]_vars

(* evaluate_rules over rule sets that differ in the rules' durations only:
   the default rules with every duration as configured or replaced by
   0 seconds, one second, or one hour *)
DurationValues == {0, 1, 3600}

WithDuration(rs, d) == [i \in DOMAIN rs |-> [rs[i] EXCEPT !.duration = d]]

DurationRules == {DefaultRules} \cup {WithDuration(DefaultRules, d) : d \in DurationValues}

DurationInit ==
    InitWith({[rules |-> rs, channels |-> DefaultChannels] : rs \in DurationRules})

DurationEvaluate ==
    /\ calls < MaxCalls
    /\ \E m \in EvalMetrics : EvaluateRules(m)

DurationTick == now < HistStep /\ Tick(HistStep)

DurationNext == DurationEvaluate \/ DurationTick

SpecDuration == DurationInit /\ [][DurationNext]_vars

(* A loaded configuration under a driver whose ticks keep occurring: two
   rules with a cooldown of one second, process_alerts called once per clock
   tick with every condition true, deliveries that succeed or fail.  The
   clock advances and the call is made whenever it is their turn, as the
   monitoring loop does while it runs. *)
RecurTicks == 6

RecurCooldown == 1

RecurRules ==
    << Rule("high_response_time", {"response_time_ms"}, 5000, 60, "warning",
            <<"slack">>, RecurCooldown, TRUE),
       Rule("agent_down", {"active_agents"}, 3, 30, "critical",
            <<"email", "slack">>, RecurCooldown, TRUE) >>

RecurInit ==
    InitWith({[rules |-> RecurRules, channels |-> cs] :
                 cs \in {LoadedChannelsA, LoadedChannelsB}})

RecurTick == calls = now + 1 /\ now < RecurTicks /\ Tick(1)

RecurProcess == calls = now /\ \E f \in {{}, {"slack"}} : ProcessAlerts(AllBad, f)

RecurNext == RecurTick \/ RecurProcess

RecurFairness == WF_vars(RecurTick) /\ WF_vars(RecurProcess)

SpecRecur == RecurInit /\ [][RecurNext]_vars /\ RecurFairness

(* evaluate_rules over metrics maps with absent keys: the empty map, the
   maps that lack one metric, and the complete map; the default rules with
   their thresholds as configured or all replaced by 0, by 1 or by 5000 *)
AbsentThresholds == {0, 1, 5000}

WithThreshold(rs, t) == [i \in DOMAIN rs |-> [rs[i] EXCEPT !.threshold = t]]

AbsentRules ==
    {DefaultRules} \cup {WithThreshold(DefaultRules, t) : t \in AbsentThresholds}

AbsentMetrics ==
    { EmptyMetrics, AllBad,
      [AllBad EXCEPT !.response_time_ms = AbsentV],
      [AllBad EXCEPT !.active_daemon_agents = AbsentV],
      [AllBad EXCEPT !.cpu_percent = AbsentV],
      [AllBad EXCEPT !.memory_percent = AbsentV],
      [AllBad EXCEPT !.status = AbsentV],
      [AllBad EXCEPT !.deprecated = AbsentV] }

AbsentInit ==
    InitWith({[rules |-> rs, channels |-> DefaultChannels] : rs \in AbsentRules})

AbsentEvaluate ==
    /\ calls < MaxCalls
    /\ \E m \in AbsentMetrics : EvaluateRules(m)

AbsentTick == now < HistStep /\ Tick(HistStep)

AbsentNext == AbsentEvaluate \/ AbsentTick

SpecAbsent == AbsentInit /\ [][AbsentNext]_vars

(* evaluate_rules for one rule over condition strings of every shape: a
   string is the set of the substrings that occur in it, drawn from the six
   names _evaluate_condition looks for and the operators "<" and ">"; it
   names one metric or two, with either operator or none.  The thresholds lie
   between the good and the bad value of every metric but the response time. *)
KindSubstrings ==
    {"response_time_ms", "active_agents", "cpu_percent", "memory_percent",
     "overall_health == 'critical'", "deprecated_services_detected"}

Operators == {{}, {"<"}, {">"}}

KindConditions ==
    {{a, b} \cup op : a \in KindSubstrings, b \in KindSubstrings, op \in Operators}

KindThresholds == {3, 50}

KindRules ==
    { << Rule("custom_rule", c, t, 0, "warning", <<"email">>, DefaultCooldown, TRUE) >> :
        c \in KindConditions, t \in KindThresholds }

KindInit ==
    InitWith({[rules |-> rs, channels |-> DefaultChannels] : rs \in KindRules})

KindEvaluate ==
    /\ calls < MaxCalls
    /\ \E m \in {AllBad, AllGood} : EvaluateRules(m)

KindTick == now < HistStep /\ Tick(HistStep)

KindNext == KindEvaluate \/ KindTick

SpecKind == KindInit /\ [][KindNext]_vars

(* monitor-system-health.py run once or with --continuous, its checks
   returning every combination of the statuses they can return *)
SystemMonitorInit ==
    /\ InitProgramsWith({setup_default_config})
    /\ system_monitor \in {SystemMonitor(FALSE), SystemMonitor(TRUE)}

SystemMonitorRun == \E checks \in CheckResults : RunHealthChecks(checks)

SystemMonitorNext ==
    \/ SystemMonitorRun
    \/ SingleRunExit
    \/ KeyboardInterrupt

SpecSystemMonitor == SystemMonitorInit /\ [][SystemMonitorNext]_vars

----------------------------------------------------------------------------
(* Properties *)

(* every id of an alert created so far, and one never issued *)
AnyId == {alerts[r].alert_id : r \in DOMAIN alerts} \cup {<<"no_such_alert", 0>>}

(* C1: cooldown is strict. Any two alerts created for the same rule name are
   at least the cooldown of the rule that created the later one apart, however
   many evaluate_rules / process_alerts calls lie in between. *)
C1_CooldownStrict ==
    \A i, j \in DOMAIN alerts :
        (i < j /\ alerts[i].component = alerts[j].component)
            => alerts[j].timestamp - alerts[i].timestamp
                   >= rules[alerts[j].rule].cooldown * TicksPerSec

(* two alerts of one rule with a cooldown of at least a second, both created *)
C1_Witness ==
    \E i, j \in DOMAIN alerts :
        /\ i < j
        /\ alerts[i].rule = alerts[j].rule
        /\ rules[alerts[j].rule].cooldown >= 1
        /\ calls >= 2

(* C2: alert ids are unique for the lifetime of the process: no two alerts
   created by evaluate_rules carry the same alert_id. *)
C2_UniqueIds ==
    \A i, j \in DOMAIN alerts : i # j => alerts[i].alert_id # alerts[j].alert_id

(* C3: after any sequence of process_alerts calls alert_history holds at most
   100 entries. *)
C3_HistoryBounded == Len(alert_history) <= HistoryCap

(* more than 100 alerts were produced and a process_alerts call just trimmed *)
C3_Witness ==
    /\ last_op.name = "process_alerts"
    /\ Len(alerts) > HistoryCap
    /\ Len(alert_history) = HistoryCap

(* C4: history is FIFO and append-only. After process_alerts calls that
   produced n alerts, alert_history is the last min(n, 100) of them in
   creation order, resolved ones included. *)
C4_HistoryFifo ==
    alert_history = LastN([i \in 1..Len(alerts) |-> i], HistoryCap)

(* the oldest entries were evicted and a resolved alert is still listed *)
C4_Witness ==
    /\ Len(alerts) > HistoryCap
    /\ alert_history[1] > 1
    /\ \E k \in DOMAIN alert_history : alerts[alert_history[k]].resolved

(* the place of object ref among the summary's recent alerts, as a set *)
RecentPlaces(ref) ==
    LET recent == LastN(alert_history, SummaryRecent)
    IN  {k \in DOMAIN recent : recent[k] = ref}

(* what resolve_alert(id) did to the object it found: gone from the active
   alerts, flagged resolved *)
ResolvedAndInactive ==
    /\ last_op.id \notin DOMAIN active_alerts
    /\ last_op.ref \notin get_active_alerts
    /\ alerts[last_op.ref].resolved

(* the summary lists the resolved object, under its id, as resolved *)
SummaryShowsResolved ==
    \E k \in RecentPlaces(last_op.ref) :
        /\ get_alert_summary.recent_alerts[k].id = last_op.id
        /\ get_alert_summary.recent_alerts[k].resolved

(* C5 as claimed: resolve_alert(id) on an active alert removes it from
   get_active_alerts(), sets resolved on it, and get_alert_summary() then
   shows that alert in its recent alerts with resolved = true. *)
C5_ResolveShownInSummary ==
    (last_op.name = "resolve_alert" /\ last_op.ref # 0)
        => ResolvedAndInactive /\ SummaryShowsResolved

(* C5 as amended: the same, the summary showing the alert whenever it is
   among the last 10 entries of alert_history. *)
C5_ResolveShownIfRecent ==
    (last_op.name = "resolve_alert" /\ last_op.ref # 0)
        => /\ ResolvedAndInactive
           /\ last_op.ref \in Range(LastN(alert_history, SummaryRecent))
                  => SummaryShowsResolved

(* an active alert among the last 10 of the history was just resolved *)
C5_Witness ==
    /\ last_op.name = "resolve_alert"
    /\ last_op.ref # 0
    /\ RecentPlaces(last_op.ref) # {}

(* C6: acknowledge_alert(id) on an active alert sets acknowledged on that
   alert and changes nothing else; called with the id of an already resolved
   alert it changes nothing. *)
C6_AcknowledgeFrame ==
    [][\A id \in AnyId :
          AcknowledgeAlert(id) =>
              /\ id \in DOMAIN active_alerts =>
                    /\ alerts' = [alerts EXCEPT ![active_alerts[id]].acknowledged = TRUE]
                    /\ UNCHANGED <<active_alerts, alert_history, last_notification>>
              /\ (\E r \in DOMAIN alerts : alerts[r].alert_id = id /\ alerts[r].resolved)
                    => UNCHANGED <<alerts, active_alerts, alert_history,
                                   last_notification>>]_vars

(* C7: acknowledge_alert and resolve_alert called with an id that is not in
   the active set raise nothing and leave the alerts and their flags, the
   active set, the history and the cooldown map as they were; so does a
   resolve that directly follows a resolve of the same id. *)
C7_UnknownIdNoOp ==
    [][\A id \in AnyId :
          /\ (id \notin DOMAIN active_alerts
                 /\ (AcknowledgeAlert(id) \/ ResolveAlert(id)))
                => /\ UNCHANGED <<alerts, active_alerts, alert_history,
                                  last_notification>>
                   /\ ~last_op'.raised
          /\ (last_op.name = "resolve_alert" /\ last_op.id = id /\ ResolveAlert(id))
                => /\ UNCHANGED <<alerts, active_alerts, alert_history,
                                  last_notification>>
                   /\ ~last_op'.raised]_vars

(* a resolve was just called with the id of an alert resolved before, or an
   acknowledge with an id never issued, and found nothing *)
C7_Witness ==
    /\ last_op.ref = 0
    /\ \/ /\ last_op.name = "resolve_alert"
          /\ \E r \in DOMAIN alerts :
                alerts[r].alert_id = last_op.id /\ alerts[r].resolved
       \/ /\ last_op.name = "acknowledge_alert"
          /\ last_op.id \notin {alerts[r].alert_id : r \in DOMAIN alerts}
          /\ active_alerts # EmptyMap

(* the indices of the enabled rules, in declaration order *)
EnabledRules ==
    SelectSeq([i \in 1..Len(rules) |-> i], LAMBDA i : rules[i].enabled)

(* C8: an exception raised while one rule is evaluated does not abort
   evaluate_rules: the call returns normally and every enabled rule, also
   each one after the failing rule, was evaluated, in order. *)
C8_RuleErrorIsolated ==
    last_op.name \in {"evaluate_rules", "process_alerts"}
        => /\ ~last_op.raised
           /\ [k \in DOMAIN last_op.trace |-> last_op.trace[k].rule] = EnabledRules

(* a rule raised and a later rule of the same call triggered an alert *)
C8_Witness ==
    /\ last_op.name \in {"evaluate_rules", "process_alerts"}
    /\ \E a, b \in DOMAIN last_op.trace :
          /\ a < b
          /\ last_op.trace[a].outcome = "condition_error"
          /\ last_op.trace[b].outcome = "fired"

(* the delivery log entries of the last call that belong to object ref *)
CallEntries(ref) ==
    SelectSeq(SubSeq(delivery_log, last_op.from + 1, Len(delivery_log)),
              LAMBDA e : e.alert = ref)

(* C9: a delivery failure on one channel does not keep send_alert from the
   remaining enabled channels of the same alert, and send_alert never raises:
   after process_alerts every new alert has one log entry per configured,
   enabled channel of its rule, in the rule's order. *)
C9_ChannelErrorIsolated ==
    last_op.name = "process_alerts"
        => /\ ~last_op.raised
           /\ \A k \in DOMAIN last_op.new :
                 LET ref == last_op.new[k]
                     chans == rules[FindRule(alerts[ref].component)].channels
                     done == CallEntries(ref)
                 IN  [n \in DOMAIN done |-> done[n].channel]
                         = SelectSeq(chans, ChannelUsable)

(* a delivery failed and a later channel of the same alert was delivered to *)
C9_Witness ==
    /\ last_op.name = "process_alerts"
    /\ \E a, b \in (last_op.from + 1)..Len(delivery_log) :
          /\ a < b
          /\ delivery_log[a].alert = delivery_log[b].alert
          /\ IsError(delivery_log[a].result)
          /\ delivery_log[b].result = "sent"

(* C10: a channel that is disabled or absent from the channel configuration
   gets no delivery attempt and no error: the delivery log never holds an
   entry for such a channel. *)
C10_DisabledChannelSilent ==
    \A n \in DOMAIN delivery_log :
        /\ delivery_log[n].channel \in DOMAIN channels
        /\ channels[delivery_log[n].channel].enabled

(* an alert whose rule names a disabled and an absent channel was dispatched
   to its other channels *)
C10_Witness ==
    /\ last_op.name = "process_alerts"
    /\ \E k \in DOMAIN last_op.new :
          LET ref == last_op.new[k]
              chans == rules[FindRule(alerts[ref].component)].channels
          IN  /\ \E c \in Range(chans) : c \notin DOMAIN channels
              /\ CallEntries(ref) # << >>
    /\ \E k \in DOMAIN last_op.new :
          LET ref == last_op.new[k]
              chans == rules[FindRule(alerts[ref].component)].channels
          IN  /\ \E c \in Range(chans) : c \in DOMAIN channels /\ ~channels[c].enabled
              /\ CallEntries(ref) # << >>

(* C11: for an enabled channel whose required configuration field is empty
   the send is skipped: every delivery log entry of such a channel records a
   skip, never a delivery or an error, and process_alerts raises nothing. *)
C11_UnconfiguredSkipped ==
    /\ ~last_op.raised
    /\ \A n \in DOMAIN delivery_log :
          ~channels[delivery_log[n].channel].configured
              => delivery_log[n].result = "unconfigured"

(* each of the five senders was called for an enabled channel whose required
   field is empty, in a call in which every delivery would have failed *)
C11_Witness ==
    /\ last_op.name = "process_alerts"
    /\ \A c \in AlertChannel :
          \E n \in DOMAIN delivery_log :
              /\ delivery_log[n].channel = c
              /\ delivery_log[n].result = "unconfigured"

(* C12: no retry. Over any sequence of cycles the delivery of one alert to
   one channel is attempted at most once, whether it succeeded or failed: the
   delivery log never holds two entries for the same alert and channel. *)
C12_NoRetry ==
    \A m, n \in DOMAIN delivery_log :
        (delivery_log[m].alert = delivery_log[n].alert
            /\ delivery_log[m].channel = delivery_log[n].channel) => m = n

(* a delivery failed in an earlier cycle, its alert is still active, and a
   later process_alerts call has dispatched alerts of its own *)
C12_Witness ==
    /\ last_op.name = "process_alerts"
    /\ Len(delivery_log) > last_op.from
    /\ \E n \in 1..last_op.from :
          /\ delivery_log[n].result = "failed"
          /\ delivery_log[n].alert \in get_active_alerts

(* C13: evaluate_rules considers only enabled rules, one after the other in
   declaration order: the rules it evaluated and the rules of the alerts it
   returned are enabled and strictly ascending in declaration order (so at
   most one alert per rule), and no alert, no entry of the active set and no
   entry of the cooldown map stems from a disabled rule. *)
C13_EnabledInOrder ==
    /\ last_op.name \in {"evaluate_rules", "process_alerts"}
          => /\ \A a, b \in DOMAIN last_op.trace :
                   a < b => last_op.trace[a].rule < last_op.trace[b].rule
             /\ \A a \in DOMAIN last_op.trace : rules[last_op.trace[a].rule].enabled
             /\ \A a, b \in DOMAIN last_op.new :
                   a < b => alerts[last_op.new[a]].rule < alerts[last_op.new[b]].rule
    /\ \A r \in DOMAIN alerts : rules[alerts[r].rule].enabled
    /\ \A id \in DOMAIN active_alerts : rules[alerts[active_alerts[id]].rule].enabled
    /\ \A n \in DOMAIN last_notification :
          \E r \in DOMAIN alerts :
              /\ rules[alerts[r].rule].enabled
              /\ alerts[r].component = n
              /\ alerts[r].timestamp = last_notification[n]

(* a call returned two alerts or more, one of them from a rule declared
   after a disabled rule *)
C13_Witness ==
    /\ last_op.name \in {"evaluate_rules", "process_alerts"}
    /\ Len(last_op.new) >= 2
    /\ \E i \in DOMAIN rules, k \in DOMAIN last_op.new :
          ~rules[i].enabled /\ alerts[last_op.new[k]].rule > i

(* the six condition kinds _evaluate_condition knows *)
ConditionKinds ==
    {"response_time_ms", "active_agents", "cpu_percent", "memory_percent",
     "overall_health == 'critical'", "deprecated_services_detected"}

(* the rule's condition string matches none of them *)
Unsupported(rule) == rule.condition \cap ConditionKinds = {}

(* C14: an enabled rule whose condition matches no supported kind evaluates
   to not triggered: the call raises nothing, the rule's outcome is "false",
   no alert and no cooldown entry stems from it, and every enabled rule, also
   each one after it, is evaluated. *)
C14_UnsupportedNotTriggered ==
    /\ last_op.name \in {"evaluate_rules", "process_alerts"}
          => /\ ~last_op.raised
             /\ \A k \in DOMAIN last_op.trace :
                   Unsupported(rules[last_op.trace[k].rule])
                       => last_op.trace[k].outcome = "false"
             /\ \A i \in DOMAIN rules :
                   rules[i].enabled
                       => \E k \in DOMAIN last_op.trace : last_op.trace[k].rule = i
    /\ \A r \in DOMAIN alerts : ~Unsupported(rules[alerts[r].rule])
    /\ \A i \in DOMAIN rules :
          Unsupported(rules[i]) => rules[i].name \notin DOMAIN last_notification

(* a rule with an unsupported condition was evaluated and a rule declared
   after it triggered in the same call *)
C14_Witness ==
    /\ last_op.name = "evaluate_rules"
    /\ \E a, b \in DOMAIN last_op.trace :
          /\ a < b
          /\ Unsupported(rules[last_op.trace[a].rule])
          /\ last_op.trace[a].outcome = "false"
          /\ last_op.trace[b].outcome = "fired"

(* the alerts a call returned for the rule of index i *)
Returned(i) == {k \in DOMAIN last_op.new : alerts[last_op.new[k]].rule = i}

(* what evaluate_rules(m) returned for rule i is one alert with the rule's
   level and name if `triggers` holds, and nothing otherwise *)
OneAlertIff(i, triggers) ==
    IF triggers
    THEN /\ Cardinality(Returned(i)') = 1
         /\ \A k \in Returned(i)' :
               /\ alerts'[last_op'.new[k]].level = rules[i].level
               /\ alerts'[last_op'.new[k]].component = rules[i].name
    ELSE Returned(i)' = {}

(* C15: an enabled rule high_response_time that is not in cooldown triggers
   exactly when response_time_ms is a number strictly greater than its
   threshold, and evaluate_rules then returns exactly one alert for it, with
   the rule's level (warning) and component high_response_time; a value equal
   to the threshold, a missing value and None do not trigger. *)
C15_ResponseTimeStrict ==
    [][\A m \in EvalMetrics, i \in DOMAIN rules :
          (/\ EvaluateRules(m)
           /\ rules[i].name = "high_response_time"
           /\ rules[i].enabled
           /\ ~InCooldown(rules[i], last_notification, now))
              => /\ rules[i].level = "warning"
                 /\ OneAlertIff(i, /\ m.response_time_ms.k = "num"
                                    /\ m.response_time_ms.v > rules[i].threshold)]_vars

(* evaluate_rules returned a warning for high_response_time after an
   earlier call, one cooldown period before, had done so too *)
C15_Witness ==
    /\ last_op.name = "evaluate_rules"
    /\ now > 0
    /\ \E k \in DOMAIN last_op.new :
          /\ alerts[last_op.new[k]].component = "high_response_time"
          /\ alerts[last_op.new[k]].level = "warning"
          /\ last_op.new[k] > 1

(* C16: an enabled rule agent_down that is not in cooldown triggers exactly
   when active_daemon_agents (0 when missing) is strictly less than its
   threshold, and evaluate_rules then returns one alert for it, with level
   critical and component agent_down; a count equal to the threshold does
   not trigger. *)
C16_AgentDownStrict ==
    [][\A m \in EvalMetrics, i \in DOMAIN rules :
          (/\ EvaluateRules(m)
           /\ rules[i].name = "agent_down"
           /\ rules[i].enabled
           /\ ~InCooldown(rules[i], last_notification, now))
              => /\ rules[i].level = "critical"
                 /\ OneAlertIff(i, Get(m.active_daemon_agents, 0).v
                                       < rules[i].threshold)]_vars

(* the score the contract gives a status *)
ContractScore(status) ==
    IF status = "healthy" THEN 100
    ELSE IF status = "warning" THEN 70
    ELSE IF status = "failed" THEN 0
    ELSE 50

(* the weight the contract gives a check *)
ContractWeight(check) ==
    IF check \in {"discovery_server", "daemon_agents"} THEN 2 ELSE 1

RECURSIVE WeightedTotal(_, _)

(* numerator and denominator of the weighted average over the checks in S *)
WeightedTotal(S, checks) ==
    IF S = {} THEN [num |-> 0, den |-> 0]
    ELSE LET c == CHOOSE x \in S : TRUE
             rest == WeightedTotal(S \ {c}, checks)
         IN  [num |-> rest.num + ContractWeight(c) * ContractScore(checks[c]),
              den |-> rest.den + ContractWeight(c)]

Abs(x) == IF x < 0 THEN -x ELSE x

(* C17: the health score is the weighted average of the per-check scores
   (healthy 100, warning 70, failed 0, anything else 50; discovery_server and
   daemon_agents twice, the others once), reported to one decimal and within
   0..100; the status is healthy iff the average is >= 90, warning iff it is
   >= 70 and < 90, critical otherwise; an empty check set gives score 0 and
   status critical. *)
C17_WeightedAverage ==
    health_data.status # "unknown"
        => LET t == WeightedTotal(DOMAIN health_data.checks, health_data.checks)
           IN  /\ health_data.score \in 0..1000
               /\ t.den > 0 => 2 * Abs(t.den * health_data.score - 10 * t.num) <= t.den
               /\ t.den = 0 => health_data.score = 0 /\ health_data.status = "critical"
               /\ health_data.status \in {"healthy", "warning", "critical"}
               /\ health_data.status = "healthy"
                     <=> (t.den > 0 /\ t.num >= 90 * t.den)
               /\ health_data.status = "warning"
                     <=> (t.den > 0 /\ t.num >= 70 * t.den /\ t.num < 90 * t.den)

(* four checks, not all healthy, whose weighted average is exactly 90 *)
C17_Witness ==
    /\ DOMAIN health_data.checks = Range(CheckOrder)
    /\ \E c \in DOMAIN health_data.checks : health_data.checks[c] # "healthy"
    /\ health_data.score = 900
    /\ health_data.status = "healthy"

(* C18: with all other checks equal, one failed critical check gives a
   strictly lower overall score than one failed non-critical check: when the
   scored map has critical check c failed and non-critical check n not
   failed, its score is below the score of the map with the statuses of c
   and n exchanged. *)
C18_CriticalWeighsMore ==
    health_data.status # "unknown"
        => \A c \in DOMAIN health_data.checks \cap {"discovery_server", "daemon_agents"},
              n \in DOMAIN health_data.checks \ {"discovery_server", "daemon_agents"} :
              (health_data.checks[c] = "failed" /\ health_data.checks[n] # "failed")
                  => health_data.score
                         < overall_health([health_data.checks EXCEPT
                                              ![c] = health_data.checks[n],
                                              ![n] = "failed"]).score

(* the fixture: four checks, a critical one failed, the other three healthy *)
C18_Witness ==
    /\ DOMAIN health_data.checks = Range(CheckOrder)
    /\ health_data.status # "unknown"
    /\ \E c \in {"discovery_server", "daemon_agents"} :
          /\ health_data.checks[c] = "failed"
          /\ \A x \in DOMAIN health_data.checks \ {c} : health_data.checks[x] = "healthy"

(* an entry of 'rules' with every required key, a known level and known
   channel names *)
RuleEntryValid(d) ==
    /\ {"name", "condition", "threshold", "duration", "level", "channels"}
           \subseteq d.has
    /\ d.rule.level \in AlertLevel
    /\ \A k \in DOMAIN d.rule.channels : d.rule.channels[k] \in AlertChannel

(* an entry of 'channels' with a known name and its config *)
ChannelEntryValid(d) == d.name \in AlertChannel /\ "config" \in d.has

(* the configuration is missing, unreadable, no JSON object, lacks a
   section, or holds an invalid entry *)
MalformedOrMissing(f) ==
    \/ f.kind # "object"
    \/ ~f.rules_present
    \/ ~f.channels_present
    \/ \E k \in DOMAIN f.rules : ~RuleEntryValid(f.rules[k])
    \/ \E k \in DOMAIN f.channels : ~ChannelEntryValid(f.channels[k])

(* C19: whenever the configuration given to AlertManager is malformed or
   missing (unreadable file, invalid JSON, missing or invalid rule or channel
   fields, absent 'rules' or 'channels' section), the manager holds the
   built-in default rules and default channels. *)
C19_MalformedGivesDefaults ==
    MalformedOrMissing(config_file)
        => rules = DefaultRules /\ channels = DefaultChannels

(* C20 (the in-flight tick): a monitoring cycle that is executing when
   stop_monitoring is called, or when the process shuts down after the stop,
   runs to completion: no loop thread is ended after the evaluation of a
   cycle and before the end of its dispatch and history append. *)
C20_InFlightTickCompletes ==
    \A t \in DOMAIN threads :
        threads[t].killed => threads[t].pc \notin {"dispatch", "append"}

(* the loop threads that are inside a monitoring cycle: evaluate_rules has
   returned and the cycle's dispatch or history append is still to come *)
InCycle == {t \in DOMAIN threads : threads[t].pc \in {"dispatch", "append"}}

(* C21: ticks never overlap. For any sequence of start_monitoring and
   stop_monitoring calls at most one monitoring cycle is executing at any
   time. *)
C21_TicksNeverOverlap == Cardinality(InCycle) <= 1

(* C22: nothing is fatal to the loop. A loop thread leaves its loop only at
   the while test and only when running is false; an exception raised inside
   a monitoring cycle leaves the thread in the loop, so that while running is
   true it goes on to further cycles. *)
C22_LoopSurvivesErrors ==
    [][\A t \in DOMAIN threads :
          /\ (threads[t].pc # "exited" /\ threads'[t].pc = "exited")
                => (threads[t].pc = "check" /\ ~running)
          /\ (threads[t].pc = "evaluate" /\ CycleRaise(t))
                => threads'[t].pc = "sleep"]_vars

(* a thread one of whose cycles raised is executing a later cycle *)
C22_Witness ==
    \E t \in DOMAIN threads :
        /\ threads[t].failed
        /\ threads[t].pc \in {"dispatch", "append"}
        /\ running

(* the pager deliveries for which a payload was built: the channel was
   enabled and held an integration key *)
PagerEvents ==
    {n \in DOMAIN delivery_log :
        /\ delivery_log[n].channel = "pagerduty"
        /\ delivery_log[n].result \in {"sent", "failed"}}

(* C23: the pager payload built for an alert has event_action "trigger", a
   dedup_key that is the alert's component, an underscore and the alert's
   level, and severity "critical" when the level is critical or emergency
   and "warning" for every other level. *)
C23_PagerPayload ==
    \A n \in PagerEvents :
        LET alert == alerts[delivery_log[n].alert]
            payload == _pagerduty_payload(alert)
        IN  /\ payload.event_action = "trigger"
            /\ payload.dedup_key = alert.component \o "_" \o alert.level
            /\ alert.level \in {"critical", "emergency"} => payload.severity = "critical"
            /\ alert.level \in {"info", "warning"} => payload.severity = "warning"

(* pager events were posted for an emergency alert and for an info alert *)
C23_Witness ==
    /\ \E n \in PagerEvents :
          /\ alerts[delivery_log[n].alert].level = "emergency"
          /\ _pagerduty_payload(alerts[delivery_log[n].alert]).dedup_key
                = "agent_down_emergency"
    /\ \E n \in PagerEvents : alerts[delivery_log[n].alert].level = "info"

(* C24: get_alert_summary reports for every level the number of active
   alerts of that level; the counts sum to active_alerts_count, which is the
   size of the active set; recent_alerts are the last min(10, len(history))
   history entries, in order, with their current acknowledged and resolved
   flags. *)
C24_SummaryCounts ==
    LET s == get_alert_summary
        n == Len(alert_history)
        m == IF n < SummaryRecent THEN n ELSE SummaryRecent
    IN  /\ s.active_alerts_count = Cardinality(get_active_alerts)
        /\ \A l \in AlertLevel :
              s.alerts_by_level[l]
                = Cardinality({r \in get_active_alerts : alerts[r].level = l})
        /\ s.alerts_by_level["info"] + s.alerts_by_level["warning"]
              + s.alerts_by_level["critical"] + s.alerts_by_level["emergency"]
                = s.active_alerts_count
        /\ Len(s.recent_alerts) = m
        /\ \A k \in 1..m :
              LET alert == alerts[alert_history[n - m + k]]
              IN  /\ s.recent_alerts[k].id = alert.alert_id
                  /\ s.recent_alerts[k].acknowledged = alert.acknowledged
                  /\ s.recent_alerts[k].resolved = alert.resolved

(* the history is longer than the summary's slice, alerts of two levels are
   active, and the slice holds an alert that was resolved and one that was
   acknowledged *)
C24_Witness ==
    /\ Len(alert_history) > SummaryRecent
    /\ \E l1, l2 \in AlertLevel :
          /\ l1 # l2
          /\ get_alert_summary.alerts_by_level[l1] > 0
          /\ get_alert_summary.alerts_by_level[l2] > 0
    /\ \E k \in DOMAIN get_alert_summary.recent_alerts :
          get_alert_summary.recent_alerts[k].resolved
    /\ \E k \in DOMAIN get_alert_summary.recent_alerts :
          get_alert_summary.recent_alerts[k].acknowledged

(* C25: a malformed value in the metric that one rule consults makes only
   that rule be skipped. Every other enabled rule whose own condition is true
   and which is not in cooldown produces its alert in the same call: no rule
   that passed its condition and the cooldown test ends in the except clause. *)
C25_OnlyThatRuleSkipped ==
    \A k \in DOMAIN last_op.trace :
        last_op.trace[k].outcome # "message_error"

(* the three recordings of the alert with reference ref: the active set
   holds an alert under its id, the history holds the alert, and the
   last-notified time of its rule is the time the alert was created *)
InActive(ref) ==
    /\ alerts[ref].alert_id \in DOMAIN active_alerts
    /\ alerts[active_alerts[alerts[ref].alert_id]].alert_id = alerts[ref].alert_id

InHistory(ref) == ref \in Range(alert_history)

CooldownStarted(ref) ==
    /\ alerts[ref].component \in DOMAIN last_notification
    /\ last_notification[alerts[ref].component] = alerts[ref].timestamp

(* C26 as stated: evaluate_rules performs all three recordings before it
   returns, so after any evaluate_rules call every returned alert is in the
   active set and in the history and its rule's last-notified time is
   updated. *)
C26_EvaluateRecordsAll ==
    last_op.name = "evaluate_rules"
        => \A k \in DOMAIN last_op.new :
              /\ InActive(last_op.new[k])
              /\ InHistory(last_op.new[k])
              /\ CooldownStarted(last_op.new[k])

(* C26, amended: evaluate_rules records each alert it returns in the active
   set and updates the rule's last-notified time; the history is extended by
   process_alerts, after the dispatch, so that after any process_alerts call
   every returned alert is recorded in all three places. *)
C26_ProcessRecordsAll ==
    /\ last_op.name = "evaluate_rules"
          => \A k \in DOMAIN last_op.new :
                InActive(last_op.new[k]) /\ CooldownStarted(last_op.new[k])
    /\ last_op.name = "process_alerts"
          => \A k \in DOMAIN last_op.new :
                /\ InActive(last_op.new[k])
                /\ InHistory(last_op.new[k])
                /\ CooldownStarted(last_op.new[k])

(* process_alerts has returned two alerts, after an evaluate_rules call of
   its own had returned alerts that are in no history *)
C26_Witness ==
    /\ last_op.name = "process_alerts"
    /\ Len(last_op.new) >= 2
    /\ \E ref \in DOMAIN alerts : ~InHistory(ref)

(* the rules that the call recorded in op left with the given outcome *)
RulesWith(op, outcome) ==
    {op.trace[k].rule : k \in {j \in DOMAIN op.trace : op.trace[j].outcome = outcome}}

(* C27: when a rule's condition is true but the rule is within its cooldown,
   its evaluation has no side effect. The call creates and returns no alert
   for the rule; the rule's last-notified time stays as it was unless a rule
   of the same name fired in the call; and a call in which no rule fired
   leaves the alerts, the active set, the history and the last-notified times
   unchanged. *)
C27_CooldownNoSideEffect ==
    [][(calls' = calls + 1 /\ last_op'.name \in {"evaluate_rules", "process_alerts"})
          => \A i \in RulesWith(last_op', "cooldown") :
                /\ \A ref \in (Len(alerts) + 1)..Len(alerts') : alerts'[ref].rule # i
                /\ \A k \in DOMAIN last_op'.new : alerts'[last_op'.new[k]].rule # i
                /\ (\A j \in RulesWith(last_op', "fired") : rules[j].name # rules[i].name)
                      => last_notification'[rules[i].name] = last_notification[rules[i].name]
                /\ RulesWith(last_op', "fired") = {}
                      => /\ alerts' = alerts
                         /\ active_alerts' = active_alerts
                         /\ alert_history' = alert_history
                         /\ last_notification' = last_notification]_vars

(* a call at a later time than the rule's last notification suppressed the
   rule and fired none: the last-notified time is still the earlier one *)
C27_Witness ==
    /\ last_op.name \in {"evaluate_rules", "process_alerts"}
    /\ RulesWith(last_op, "fired") = {}
    /\ \E i \in RulesWith(last_op, "cooldown") :
          /\ rules[i].name \in DOMAIN last_notification
          /\ last_notification[rules[i].name] < now
          /\ \A ref \in DOMAIN alerts : alerts[ref].timestamp < now

(* the channels on which a delivery of the alert was attempted: the sender
   was called and went past its configuration test *)
Attempted(ref) ==
    {delivery_log[n].channel :
        n \in {m \in DOMAIN delivery_log :
                  /\ delivery_log[m].alert = ref
                  /\ delivery_log[m].result # "unconfigured"}}

(* the configured, enabled channels listed in the rule that triggered ref *)
RuleChannels(ref) ==
    {c \in Range(rules[alerts[ref].rule].channels) :
        ChannelUsable(c) /\ channels[c].configured}

(* C28: for any rule set that load_config accepts, process_alerts attempts
   the delivery of each new alert on exactly the configured, enabled channels
   listed in the rule that triggered the alert, and on no other channel. *)
C28_ChannelsOfTriggeringRule ==
    \A ref \in Range(alert_history) : Attempted(ref) = RuleChannels(ref)

(* C29: in every reachable state the active set is exactly the set of alerts
   that were triggered and are not resolved. Each entry of active_alerts is
   stored under its own alert_id and is unresolved, and every triggered alert
   that is unresolved is an entry of active_alerts. *)
C29_ActiveIsUnresolved ==
    /\ \A id \in DOMAIN active_alerts :
          /\ alerts[active_alerts[id]].alert_id = id
          /\ ~alerts[active_alerts[id]].resolved
    /\ \A ref \in DOMAIN alerts :
          ~alerts[ref].resolved
              => /\ alerts[ref].alert_id \in DOMAIN active_alerts
                 /\ active_alerts[alerts[ref].alert_id] = ref

(* whether evaluate_rules(m) creates an alert for rule i, as the condition,
   the cooldown and the message formatting decide it; the rule's duration
   takes no part.  The rule is read from the default rules, so the verdict is
   the same for every rule set of DurationRules. *)
DecidedWithoutDuration(i, m) ==
    /\ DefaultRules[i].enabled
    /\ _evaluate_condition(DefaultRules[i], m) = "true"
    /\ ~InCooldown(DefaultRules[i], last_notification, now)
    /\ ~_generate_alert_message_raises(m)

(* C30: a rule's duration is not enforced. Whether evaluate_rules creates an
   alert for a rule does not depend on the rule's duration, and a single
   sample that satisfies the condition triggers at once, on the first
   evaluation. *)
C30_DurationNotEnforced ==
    [][\A m \in EvalMetrics, i \in DOMAIN rules :
          EvaluateRules(m) => OneAlertIff(i, DecidedWithoutDuration(i, m))]_vars

(* the first evaluation, at time 0, created an alert for a rule whose
   duration is one hour *)
C30_Witness ==
    /\ last_op.name = "evaluate_rules"
    /\ calls = 1
    /\ now = 0
    /\ \E k \in DOMAIN last_op.new :
          /\ rules[alerts[last_op.new[k]].rule].duration = 3600
          /\ alerts[last_op.new[k]].timestamp = 0

(* the alert went through the dispatch of process_alerts and no channel
   received it: every delivery failed or was skipped *)
Undelivered(ref) ==
    /\ ref \in Range(alert_history)
    /\ \A n \in DOMAIN delivery_log :
          delivery_log[n].alert = ref => delivery_log[n].result # "sent"

(* C31: the cooldown starts when the alert is created, before and
   independently of the dispatch. For an alert that reached no channel the
   rule's last-notified time is still no earlier than the alert, and every
   later alert of the rule (so every later notification on any channel) comes
   at least the rule's cooldown after it. *)
C31_CooldownIndependentOfDispatch ==
    \A ref \in DOMAIN alerts :
        Undelivered(ref)
            => /\ alerts[ref].component \in DOMAIN last_notification
               /\ last_notification[alerts[ref].component] >= alerts[ref].timestamp
               /\ \A later \in DOMAIN alerts :
                     (later > ref /\ alerts[later].rule = alerts[ref].rule)
                         => alerts[later].timestamp - alerts[ref].timestamp
                               >= rules[alerts[ref].rule].cooldown * TicksPerSec

(* an alert reached no channel, and a later process_alerts call, made within
   the cooldown, found the rule's condition true and suppressed it *)
C31_Witness ==
    /\ last_op.name = "process_alerts"
    /\ \E ref \in DOMAIN alerts :
          /\ Undelivered(ref)
          /\ \E n \in DOMAIN delivery_log :
                delivery_log[n].alert = ref /\ IsError(delivery_log[n].result)
          /\ alerts[ref].timestamp < now
          /\ alerts[ref].rule \in RulesWith(last_op, "cooldown")

(* the alerts that rule i has created so far *)
AlertsOf(i) == {ref \in DOMAIN alerts : alerts[ref].rule = i}

(* the rule has never notified, or at least its cooldown has elapsed since
   its last notification *)
CooldownOver(i) ==
    \/ rules[i].name \notin DOMAIN last_notification
    \/ now - last_notification[rules[i].name] >= rules[i].cooldown * TicksPerSec

(* C32: no over-suppression. If an enabled rule's condition is true at an
   evaluation, the rule has never notified or at least its cooldown has
   elapsed (an elapsed time equal to the cooldown included), and building the
   alert raises nothing, then the evaluation creates an alert for the rule;
   so while the condition stays true and the ticks keep occurring the alerts
   of the rule recur, here one per cooldown period to the end of the run. *)
C32_NoOverSuppression ==
    /\ [][\A i \in DOMAIN rules :
             (/\ HistProcess
              /\ rules[i].enabled
              /\ _evaluate_condition(rules[i], AllBad) = "true"
              /\ ~_generate_alert_message_raises(AllBad)
              /\ CooldownOver(i))
                 => /\ Cardinality(Returned(i)') = 1
                    /\ Cardinality(AlertsOf(i)') = Cardinality(AlertsOf(i)) + 1]_vars
    /\ <>(\A i \in DOMAIN rules :
             Cardinality(AlertsOf(i)) >= RecurTicks \div (RecurCooldown * TicksPerSec) + 1)

(* an evaluation made exactly one cooldown after the rule's last notification
   has created the rule's next alert *)
C32_Witness ==
    /\ last_op.name = "process_alerts"
    /\ \E i \in DOMAIN rules :
          \E a, b \in AlertsOf(i) :
              /\ alerts[b].timestamp - alerts[a].timestamp
                    = rules[i].cooldown * TicksPerSec
              /\ rules[i].cooldown > 0
              /\ alerts[b].timestamp = now
              /\ b \in Range(last_op.new)

(* rule i has created alerts, and all of them are resolved by now *)
AllResolved(i) ==
    /\ AlertsOf(i) # {}
    /\ \A ref \in AlertsOf(i) : alerts[ref].resolved

(* rule i has no active alert *)
NoneActive(i) ==
    \A id \in DOMAIN active_alerts : alerts[active_alerts[id]].rule # i

(* C33: acknowledge_alert and resolve_alert never change the cooldown map.
   After an alert is resolved, a further evaluation within the rule's
   cooldown with the condition still true creates no new alert, so the rule
   then has no active alert although its condition holds. *)
C33_ResolveKeepsCooldown ==
    [][/\ last_op'.name \in {"acknowledge_alert", "resolve_alert"}
            => last_notification' = last_notification
       /\ (calls' = calls + 1 /\ last_op'.name \in {"evaluate_rules", "process_alerts"})
            => \A i \in RulesWith(last_op', "cooldown") :
                  AllResolved(i) => (AlertsOf(i)' = AlertsOf(i) /\ NoneActive(i)')]_vars

(* the rule's alert was resolved, and the evaluation that followed within the
   cooldown found the condition true and left the rule without active alert *)
C33_Witness ==
    /\ last_op.name \in {"evaluate_rules", "process_alerts"}
    /\ \E i \in RulesWith(last_op, "cooldown") :
          /\ AllResolved(i)
          /\ NoneActive(i)
          /\ rules[i].cooldown > 0

(* the metric that rule i consults is absent from the map m *)
MetricAbsent(i, m) ==
    LET c == rules[i].condition
    IN  \/ c = {"response_time_ms"} /\ m.response_time_ms = AbsentV
        \/ c = {"active_agents"} /\ m.active_daemon_agents = AbsentV
        \/ c = {"cpu_percent"} /\ m.cpu_percent = AbsentV
        \/ c = {"memory_percent"} /\ m.memory_percent = AbsentV
        \/ c = {"overall_health == 'critical'"} /\ m.status = AbsentV
        \/ c = {"deprecated_services_detected"} /\ m.deprecated = AbsentV

(* C34: a metric that is absent from the metrics map is read as 0 (the
   status as "unknown", the collection as empty). With non-negative
   thresholds a rule whose metric is absent does not trigger if it is an
   "exceeds threshold" rule or the status rule, and the "below threshold"
   rule agent_down triggers exactly when its threshold is positive; so it is
   with every rule for the empty metrics map. *)
C34_AbsentReadAsZero ==
    [][\A m \in AbsentMetrics, i \in DOMAIN rules :
          (/\ EvaluateRules(m)
           /\ rules[i].enabled
           /\ rules[i].threshold >= 0
           /\ MetricAbsent(i, m)
           /\ ~InCooldown(rules[i], last_notification, now))
              => OneAlertIff(i, /\ rules[i].condition = {"active_agents"}
                                /\ rules[i].threshold > 0)]_vars

(* evaluate_rules on the empty metrics map returned the alert of agent_down
   and nothing else, for rules that are not in cooldown *)
C34_Witness ==
    /\ last_op.name = "evaluate_rules"
    /\ calls = 1
    /\ Len(last_op.new) = 1
    /\ alerts[last_op.new[1]].component = "agent_down"
    /\ RulesWith(last_op, "false")
          = {i \in DOMAIN rules : rules[i].name # "agent_down"}

(* the order in which the contract has the substrings tested *)
KindOrder ==
    <<"response_time_ms", "active_agents", "cpu_percent", "memory_percent",
      "overall_health == 'critical'", "deprecated_services_detected">>

(* the places of the substrings that occur in the condition *)
KindPlaces(cond) == {k \in DOMAIN KindOrder : KindOrder[k] \in cond}

(* the first of them in the order; 0 if none occurs *)
FirstKind(cond) ==
    IF KindPlaces(cond) = {} THEN 0
    ELSE CHOOSE k \in KindPlaces(cond) : \A j \in KindPlaces(cond) : k <= j

(* the verdict the kind gives on well-formed metrics: ">" for the numeric
   kinds, "<" for active_agents, whatever operator the string shows *)
KindVerdict(kind, threshold, m) ==
    CASE kind = 1 -> m.response_time_ms.v > threshold
      [] kind = 2 -> m.active_daemon_agents.v < threshold
      [] kind = 3 -> m.cpu_percent.v > threshold
      [] kind = 4 -> m.memory_percent.v > threshold
      [] kind = 5 -> m.status.v = "critical"
      [] kind = 6 -> m.deprecated.v > threshold
      [] OTHER -> FALSE

(* C35: the kind of a condition is chosen by the first substring that occurs
   in the condition string, tested in the order response_time_ms,
   active_agents, cpu_percent, memory_percent, overall_health == 'critical',
   deprecated_services_detected; the direction of the comparison is fixed by
   the kind (">" for the numeric kinds, "<" for active_agents) and does not
   depend on the operator written in the string. *)
C35_KindByFirstSubstring ==
    [][\A m \in {AllBad, AllGood}, i \in DOMAIN rules :
          (/\ EvaluateRules(m)
           /\ rules[i].enabled
           /\ ~InCooldown(rules[i], last_notification, now))
              => OneAlertIff(i, KindVerdict(FirstKind(rules[i].condition),
                                            rules[i].threshold, m))]_vars

(* a rule whose string names active_agents with ">" and also cpu_percent has
   triggered on its first evaluation, the agent count being below its
   threshold *)
C35_Witness ==
    /\ last_op.name = "evaluate_rules"
    /\ rules[1].condition = {"active_agents", "cpu_percent", ">"}
    /\ rules[1].threshold = 50
    /\ Len(last_op.new) = 1
    /\ calls = 1

(* loading the file raises: it cannot be opened or parsed, it is no JSON
   object, or one of its entries is invalid *)
LoadFails(f) ==
    \/ f.kind # "object"
    \/ \E k \in DOMAIN f.rules : ~RuleEntryValid(f.rules[k])
    \/ \E k \in DOMAIN f.channels : ~ChannelEntryValid(f.channels[k])

(* the rules of the file, in file order, an absent cooldown read as 300 and
   an absent enabled as true *)
FileRules(f) ==
    [k \in DOMAIN f.rules |->
        [f.rules[k].rule EXCEPT
           !.cooldown = IF "cooldown" \in f.rules[k].has THEN @ ELSE DefaultCooldown,
           !.enabled = IF "enabled" \in f.rules[k].has THEN @ ELSE TRUE]]

(* the channel entry of the file with the given name *)
FileChannel(f, name) ==
    LET k == CHOOSE j \in DOMAIN f.channels : f.channels[j].name = name
    IN  [f.channels[k].channel EXCEPT
           !.enabled = IF "enabled" \in f.channels[k].has THEN @ ELSE TRUE]

(* C36: load_config is all-or-nothing. If loading fails at any point, on the
   k-th rule or on a channel entry after all rules were read, the rules and
   the channels are both exactly the built-in defaults, never a mix; if it
   succeeds they are exactly those of the file, the rules in file order. *)
C36_LoadAllOrNothing ==
    config_file.kind # "none"
        => IF LoadFails(config_file)
           THEN rules = DefaultRules /\ channels = DefaultChannels
           ELSE /\ rules = FileRules(config_file)
                /\ DOMAIN channels
                      = {config_file.channels[k].name : k \in DOMAIN config_file.channels}
                /\ \A c \in DOMAIN channels : channels[c] = FileChannel(config_file, c)

(* the file's rules were all read and a channel entry then failed: the
   manager was built with the default rules and channels and has processed
   metrics with them *)
C36_Witness ==
    /\ config_file.kind = "object"
    /\ \A k \in DOMAIN config_file.rules : RuleEntryValid(config_file.rules[k])
    /\ Len(config_file.rules) > 1
    /\ \E k \in DOMAIN config_file.channels : ~ChannelEntryValid(config_file.channels[k])
    /\ FileRules(config_file) # DefaultRules
    /\ rules = DefaultRules
    /\ last_op.name = "process_alerts"

(* C37: configuration round-trips. For any manager state reached by
   setup_default_config or load_config, save_config followed by load_config
   of the written file yields the same rule list (same order, and for every
   rule the same name, condition, threshold, duration, level, channels,
   cooldown and enabled) and the same channel map. *)
C37_ConfigRoundTrip ==
    LET reloaded == load_config(save_config(rules, channels))
    IN  /\ Len(reloaded.rules) = Len(rules)
        /\ \A k \in DOMAIN rules : reloaded.rules[k] = rules[k]
        /\ DOMAIN reloaded.channels = DOMAIN channels
        /\ \A c \in DOMAIN channels : reloaded.channels[c] = channels[c]

(* the manager was loaded from a file in which a rule lacks the optional
   keys, so that the file it would write differs from the file it read, and
   it has processed metrics since *)
C37_Witness ==
    /\ config_file.kind = "object"
    /\ ~LoadFails(config_file)
    /\ \E k \in DOMAIN config_file.rules : "cooldown" \notin config_file.rules[k].has
    /\ save_config(rules, channels) # config_file
    /\ rules # DefaultRules
    /\ load_config(save_config(rules, channels)).rules = rules
    /\ last_op.name = "process_alerts"

(* check_system_health has scored its four checks *)
FourChecks == DOMAIN health_data.checks = Range(CheckOrder)

(* the checks whose status is not healthy *)
NotHealthy == {c \in DOMAIN health_data.checks : health_data.checks[c] # "healthy"}

(* C38 as stated: over the four checks the overall status is healthy only if
   every check's status is healthy. *)
C38_HealthyOnlyIfAllHealthy ==
    (FourChecks /\ health_data.status = "healthy") => NotHealthy = {}

(* C38, amended: over the four checks the overall status is healthy exactly
   when the weighted average is at least 90. That is so when every check is
   healthy, and also with one critical check at warning, with one
   non-critical check at warning or at a status that scores 50, or with both
   non-critical checks at warning; it is never so when a check is failed or
   when more than two checks are not healthy. *)
C38_HealthyToleratesWarnings ==
    FourChecks
        => LET st == health_data.checks
               OneWarning == \E c \in DOMAIN st : NotHealthy = {c} /\ st[c] = "warning"
               OneFifty ==
                   \E c \in DOMAIN st \ critical_checks :
                       NotHealthy = {c} /\ st[c] \notin {"warning", "failed"}
               TwoWarnings ==
                   /\ NotHealthy = DOMAIN st \ critical_checks
                   /\ \A c \in NotHealthy : st[c] = "warning"
           IN  /\ health_data.status = "healthy"
                     <=> (NotHealthy = {} \/ OneWarning \/ OneFifty \/ TwoWarnings)
               /\ health_data.status = "healthy"
                     => /\ \A c \in DOMAIN st : st[c] # "failed"
                        /\ Cardinality(NotHealthy) <= 2

(* the system_resources check reports a status outside the score table, as
   it does with "critical" for a CPU load above 95 percent, the other three
   checks are healthy, and the overall status is healthy *)
C38_Witness ==
    /\ FourChecks
    /\ health_data.checks["system_resources"] = "degraded"
    /\ NotHealthy = {"system_resources"}
    /\ health_data.status = "healthy"
    /\ health_data.score = 917

(* the metrics of the cycle: what the alert manager reads of the health_data
   that check_system_health returned, the status of overall_health; the
   other metrics play no part in the system_critical rule *)
CycleMetrics ==
    Metrics(AbsentV, AbsentV, AbsentV, AbsentV, Str(health_data.status), AbsentV)

(* C39: over the four checks, whenever discovery_server or daemon_agents has
   status failed the overall status is critical, whatever the other checks
   report, so the condition of the system_critical rule is true for the
   metrics of that cycle. *)
C39_FailedCriticalCheckIsCritical ==
    (/\ FourChecks
     /\ \E c \in critical_checks : health_data.checks[c] = "failed")
        => /\ health_data.status = "critical"
           /\ \A i \in DOMAIN rules :
                 rules[i].name = "system_critical"
                     => _evaluate_condition(rules[i], CycleMetrics) = "true"

(* daemon_agents is failed and every other check is healthy: the score is
   66.7 and the status critical *)
C39_Witness ==
    /\ FourChecks
    /\ NotHealthy = {"daemon_agents"}
    /\ health_data.checks["daemon_agents"] = "failed"
    /\ health_data.score = 667
    /\ health_data.status = "critical"
    /\ \E i \in DOMAIN rules : rules[i].name = "system_critical"

(* C40: run_health_checks reports "failed" if any check failed, else
   "warning" if any check warns, and "healthy" only when every check
   returned "healthy"; so a single run that exits with code 0 had every
   check healthy. *)
AllChecksHealthy ==
    \A c \in DOMAIN system_monitor.health_report.checks :
        system_monitor.health_report.checks[c] = "healthy"

StatusesReported ==
    {system_monitor.health_report.checks[c] : c \in DOMAIN system_monitor.health_report.checks}

C40_HealthyOnlyIfEveryCheckHealthy ==
    system_monitor.pc # "start"
        => /\ "failed" \in StatusesReported
                => system_monitor.health_report.status = "failed"
           /\ "failed" \notin StatusesReported /\ "warning" \in StatusesReported
                => system_monitor.health_report.status = "warning"
           /\ system_monitor.health_report.status = "healthy" => AllChecksHealthy
           /\ ~system_monitor.continuous /\ system_monitor.exit_code = 0
                => AllChecksHealthy

====
